---- MODULE Spec2Model ----
(***************************************************************************)
(* Dialog bridging engine of backend/app/services/dialog.py.                *)
(*                                                                         *)
(* Every handler (handle_avito_message, handle_avito_order_event,           *)
(* _execute_scheduled_auto_reply, handle_telegram_message,                  *)
(* send_portal_text_message) runs as an asyncio task with its own           *)
(* AsyncSession; a task is a record proc[p] whose pc is the await it is     *)
(* suspended at.  The rows of the dialogs and messages tables are shared;  *)
(* proc[p].mem is the task's ORM copy of its Dialog row, which is what the *)
(* code reads between two session.refresh() calls.                         *)
(***************************************************************************)
EXTENDS Integers, Sequences, FiniteSets, Bags, TLC

VARIABLES
    dialogs,    \* table dialogs: sequence of rows, Dialog.id = index
    messages,   \* table messages: sequence of rows, Message.id = index
    topics,     \* forum topics that exist in the Telegram group
    nextTopic,  \* next message_thread_id Telegram hands out
    sent,       \* bag of the Telegram sends that succeeded
    queue,      \* TaskQueue: enqueued avito.send_message jobs
    now,        \* wall clock, in slots
    timers,     \* runner() tasks created by _schedule_auto_reply
    policy,     \* the client's auto-reply settings
    proc,       \* the tasks
    calls,      \* handler invocations still to start
    faults,     \* remote failures still to inject
    prefix,     \* status prefix of the title of each forum topic
    echo,       \* TaskQueue outbound cache: remote ids remembered
    remote,     \* Avito: ids of the messages the worker has sent
    wk          \* worker.main: the job in hand and the position in it

vars == <<dialogs, messages, topics, nextTopic, sent, queue, now, timers, policy, proc, calls, faults,
         prefix, echo, remote, wk>>

\* What only the outbound worker and the pollers touch.
outv == <<echo, remote, wk>>

----------------------------------------------------------------------------
\* Bounds of the model.
MaxCalls == 3
MaxFaults == 1
MaxNow == 3
DaySlots == 3

InCalls == 2
WinCalls == 2
InFaults == 1
OutCalls == 3
OutFaults == 1

Procs == {"p1", "p2"}
Convs == {"c1"}
Sids == {"m1"}

\* Optional[...] = None of the model: telegram_topic_id, source_message_id,
\* auto_reply_scheduled_at / auto_reply_last_sent_at, dialog id of a task.
NoTopic == 0
NoSid == ""
NoTime == -1
NoDialog == 0

\* _execute_with_retry(..., retries: int = 1)
Retries == 1

\* AUTO_REPLY_DELAY_SECONDS, and the length of one clock slot in seconds.
AUTO_REPLY_DELAY_SECONDS == 75
SlotSeconds == AUTO_REPLY_DELAY_SECONDS
DelaySlots == AUTO_REPLY_DELAY_SECONDS \div SlotSeconds

\* Bot.topic_mode (default True) and a configured group chat.
TopicMode == TRUE

----------------------------------------------------------------------------
\* Rows.

NewDialogRow(conv, topic) ==
    [conv |-> conv, topic |-> topic, intro |-> FALSE,
     sched |-> NoTime, lastSent |-> NoTime]

NoMem == NewDialogRow("", NoTopic)

NewMessageRow(d, direction, sid, status, auto, client) ==
    [dialog |-> d, direction |-> direction, sid |-> sid, status |-> status,
     auto |-> auto, client |-> client, at |-> now, attachments |-> <<>>]

IdleProc ==
    [pc |-> "idle", op |-> "none", conv |-> "", sid |-> NoSid, text |-> FALSE,
     d |-> NoDialog, mem |-> NoMem, created |-> FALSE, tcreated |-> FALSE,
     tid |-> NoTopic, thread |-> NoTopic, attempt |-> 0, phase |-> "none",
     outs |-> <<>>, ev |-> <<>>, stale |-> NoTopic, schedAt |-> NoTime,
     tgid |-> 0, seen |-> 0, photo |-> FALSE, res |-> "none",
     cap |-> FALSE, input |-> <<>>, atts |-> <<>>, cur |-> "none", ledger |-> <<>>,
     fallback |-> FALSE, match |-> FALSE, config |-> "ok",
     poll |-> "none", chat |-> <<>>, errs |-> 0, read |-> FALSE, bot |-> ""]

\* get_by_source that finds no row.
get_by_source_Never(direction, sid) == {}

\* MessageRepository.get_by_source: newest row with that direction and id.
get_by_source(direction, sid) ==
    {i \in 1..Len(messages) :
        messages[i].direction = direction /\ messages[i].sid = sid}

\* get_by_avito that finds no Dialog.
get_by_avito_Never(conv) == {}

\* DialogRepository.get_by_avito: rows of the conversation; scalar_one_or_none
\* raises MultipleResultsFound when there are two.
get_by_avito(conv) == {i \in 1..Len(dialogs) : dialogs[i].conv = conv}

\* has_outgoing_since that leaves out a message of the very instant.
has_outgoing_since_StrictlyAfter(d, since) ==
    \E i \in 1..Len(messages) :
        /\ messages[i].dialog = d /\ messages[i].direction = "telegram"
        /\ ~messages[i].auto /\ messages[i].at > since

\* MessageRepository.has_outgoing_since: a Message of direction telegram
\* that is no auto-reply, created at or after since.
has_outgoing_since(d, since) ==
    \E i \in 1..Len(messages) :
        /\ messages[i].dialog = d /\ messages[i].direction = "telegram"
        /\ ~messages[i].auto /\ messages[i].at >= since

\* A unit of work flushes only the attributes whose value differs from the
\* loaded one; the row keeps the other columns as other sessions left them.
Flush(d, mem, new) ==
    [f \in DOMAIN dialogs[d] |->
        IF f \in DOMAIN new /\ new[f] # mem[f] THEN new[f] ELSE dialogs[d][f]]

\* set_topic with the clearing write lost.
set_topic_KeepsOnClear(d, mem, t) ==
    IF t = NoTopic THEN dialogs[d]
    ELSE Flush(d, mem, [topic |-> t, intro |-> FALSE])

\* DialogRepository.set_topic: binding an id resets topic_intro_sent.
set_topic(d, mem, t) ==
    Flush(d, mem, IF t # NoTopic THEN [topic |-> t, intro |-> FALSE]
                                 ELSE [topic |-> t])

\* DialogRepository.clear_auto_reply_schedule: nothing is written when the
\* copy holds no schedule.
clear_auto_reply_schedule(d, mem) ==
    IF mem.sched = NoTime THEN dialogs[d] ELSE Flush(d, mem, [sched |-> NoTime])

\* mark_auto_reply_sent that records the time and leaves the schedule.
mark_auto_reply_sent_KeepsSchedule(d, mem, t) == Flush(d, mem, [lastSent |-> t])

\* DialogRepository.mark_auto_reply_sent
mark_auto_reply_sent(d, mem, t) == Flush(d, mem, [lastSent |-> t, sched |-> NoTime])

\* The payload of an avito.send_message job: the Dialog, message_db_id, the
\* kind, status_on_success and the telegram_topic_id the handler saw.
Job(d, mid, kind, status, topic) ==
    [d |-> d, mid |-> mid, kind |-> kind, status_on_success |-> status, topic |-> topic]

\* worker.main between two jobs.
IdleWorker == [pc |-> "idle", job |-> [d |-> NoDialog], rid |-> "", sendOk |-> FALSE]

----------------------------------------------------------------------------
\* Telegram.

\* Outcomes of one Bot API call that names a thread: a deleted thread makes
\* Telegram answer "message thread not found"; otherwise the call succeeds,
\* or is rate-limited (429), or fails otherwise, while faults are left.
Outcomes(thread) ==
    IF thread # NoTopic /\ thread \notin topics
    THEN {"missing"}
    ELSE {"ok"} \cup (IF faults > 0 THEN {"429", "error"} ELSE {})

IsFault(o) == o \in {"429", "error"}

Charge(o) == IF IsFault(o) THEN faults - 1 ELSE faults

\* _is_topic_missing_error that knows none of Telegram's phrases.
_is_topic_missing_error_Never(o) == FALSE

\* DialogService._is_topic_missing_error
_is_topic_missing_error(o) == o = "missing"

\* A send that succeeded: the Dialog it was made for, what it carried, the
\* pass of _send_with_topic_recovery that made it, the thread it went to, the
\* telegram_topic_id the Dialog row held at that moment, and the time.
SentRow(d, kind, pass, thread) ==
    [d |-> d, kind |-> kind, pass |-> pass, thread |-> thread,
     bound |-> dialogs[d].topic, at |-> now]

Log(row) == sent (+) SetToBag({row})

\* TelegramService.create_topic as the callers read it: an id, an answer
\* without an id, or an exception.
CreateOutcomes == {"ok"} \cup (IF faults > 0 THEN {"noid", "error"} ELSE {})

ChargeCreate(o) == IF o = "ok" THEN faults ELSE faults - 1

\* Outcomes of edit_topic_name under _update_topic_status, which returns at
\* once without a topic id and only logs a failure.
EditOutcomes(thread) ==
    IF thread = NoTopic THEN {"skip"}
    ELSE IF thread \notin topics THEN {"missing"}
    ELSE {"ok"} \cup (IF faults > 0 THEN {"error"} ELSE {})

\* _update_topic_status that takes every edit for accepted.
_update_topic_status_IgnoresOutcome(thread, status, o) ==
    IF thread = NoTopic THEN prefix ELSE [prefix EXCEPT ![thread] = status]

\* DialogService._update_topic_status: the title of the topic gets the
\* prefix of the status when Telegram accepts the edit.
_update_topic_status(thread, status, o) ==
    IF o = "ok" THEN [prefix EXCEPT ![thread] = status] ELSE prefix

----------------------------------------------------------------------------
\* Auto-reply window arithmetic (local time; the host and the client are in
\* the same zone).

TimeOfDay(t) == t % DaySlots
Midnight(t) == (t \div DaySlots) * DaySlots

\* _is_time_within_window that takes equal bounds for the whole day.
_is_time_within_window_EqualIsAlways(current, start, end) ==
    IF start = end THEN TRUE
    ELSE IF start < end THEN start <= current /\ current < end
    ELSE current >= start \/ current < end

\* DialogService._is_time_within_window
_is_time_within_window(current, start, end) ==
    IF start = end THEN FALSE
    ELSE IF start < end THEN start <= current /\ current < end
    ELSE current >= start \/ current < end

\* _calculate_window_start that never looks back one day.
_calculate_window_start_Today(local_now, always, start, end) ==
    IF always THEN Midnight(local_now) ELSE Midnight(local_now) + start

\* DialogService._calculate_window_start
_calculate_window_start(local_now, always, start, end) ==
    IF always THEN Midnight(local_now)
    ELSE IF start <= end
         THEN IF local_now >= Midnight(local_now) + start
              THEN Midnight(local_now) + start
              ELSE Midnight(local_now) - DaySlots + start
         ELSE IF TimeOfDay(local_now) >= start
              THEN Midnight(local_now) + start
              ELSE Midnight(local_now) - DaySlots + start

\* The eligibility test shared by _maybe_send_auto_reply (lines 1194-1238)
\* and _execute_scheduled_auto_reply (lines 1278-1317), on the last_sent
\* value of the caller's ORM copy.
PolicyOn == policy.enabled /\ policy.text

InWindow(t) ==
    policy.always \/ _is_time_within_window(TimeOfDay(t), policy.start, policy.end)

AnsweredInWindow(lastSent, t) ==
    /\ lastSent # NoTime
    /\ lastSent >= _calculate_window_start(t, policy.always, policy.start, policy.end)

Eligible(lastSent, t) == PolicyOn /\ InWindow(t) /\ ~AnsweredInWindow(lastSent, t)

PolicyOff ==
    [enabled |-> FALSE, text |-> FALSE, always |-> FALSE, start |-> 0, end |-> 0]

----------------------------------------------------------------------------
\* Shorthands for the task records.

Set(p, rec) == proc' = [proc EXCEPT ![p] = rec]

With(rec, upd) == [f \in DOMAIN rec |-> IF f \in DOMAIN upd THEN upd[f] ELSE rec[f]]

\* Entry of _send_with_topic_recovery: thread_id_int = int(telegram_topic_id)
\* of the caller's copy, first pass of the send.
EnterSend(rec, topic) ==
    With(rec, [pc |-> "exec", thread |-> topic, attempt |-> 0, phase |-> "first",
               outs |-> <<>>])

----------------------------------------------------------------------------
\* handle_avito_message / handle_avito_order_event

\* DialogService._should_ignore_message that filters nothing.
_should_ignore_message_Never(text, match) == FALSE

\* DialogService._should_ignore_message: match says that the text holds the
\* system marker (with hide_system_messages) or one of the client's
\* filter_keywords.
_should_ignore_message(text, match) == text /\ match

\* The kinds of attachment the loop of lines 115-311 tells apart: an image
\* with and without a resolvable URL, a voice note with and without an id,
\* and any other type.
AttKinds == {"image", "image_nourl", "voice", "voice_noid", "file"}

AttType(a) ==
    IF a \in {"image", "image_nourl"} THEN "image"
    ELSE IF a \in {"voice", "voice_noid"} THEN "voice"
    ELSE a

\* The attachment lists the events carry: none, one or two attachments,
\* every kind among them.
AttLists ==
    {<<>>, <<"image">>, <<"voice_noid", "file">>, <<"image_nourl", "voice">>}

\* One entry of attachments_records.
Entry(type, delivered, reason) ==
    [type |-> type, delivered |-> delivered, reason |-> reason]

\* handle_avito_message, lines 74-98, on an event with or without text,
\* with the attachments atts: the content filter (only on a text), the empty
\* payload, the check-before-insert on (direction, source id), in that
\* order.
handle_avito_message(conv, sid, text, match, atts) ==
    LET verdict == IF text /\ _should_ignore_message(text, match) THEN "filtered"
                   ELSE IF ~text /\ atts = <<>> THEN "empty"
                   ELSE IF sid # NoSid /\ get_by_source("avito", sid) # {} THEN "duplicate"
                   ELSE "none" IN
    With(IdleProc,
         [op |-> "msg", conv |-> conv, sid |-> sid, text |-> text, cap |-> text,
          input |-> atts, atts |-> atts, match |-> match,
          pc |-> IF verdict = "none" THEN "resolve" ELSE "done",
          res |-> verdict])

\* handle_avito_order_event, lines 398-403: an order event always carries
\* its source_key and is checked against the rows of direction avito.
handle_avito_order_event(conv, sid) ==
    LET dup == get_by_source("avito", sid) # {} IN
    With(IdleProc,
         [op |-> "order", conv |-> conv, sid |-> sid, text |-> TRUE,
          pc |-> IF dup THEN "done" ELSE "resolve",
          res |-> IF dup THEN "duplicate" ELSE "none"])

\* The poller, the webhook worker and the /avito route start an ingest of a
\* text event (conversation, remote message id), or of an order event.
IngestBegin(p) ==
    /\ proc[p].pc \in {"idle", "done", "failed"}
    /\ calls > 0
    /\ \E op \in {"msg", "order"}, conv \in Convs, sid \in Sids \cup {NoSid} :
          /\ op = "order" => sid # NoSid
          /\ Set(p, IF op = "msg"
                    THEN handle_avito_message(conv, sid, TRUE, FALSE, <<>>)
                    ELSE handle_avito_order_event(conv, sid))
    /\ calls' = calls - 1
    /\ UNCHANGED <<dialogs, messages, topics, nextTopic, sent, queue, now, timers, policy, faults, prefix, outv>>

\* The same entry with every shape of event: with and without a text, a
\* text the filter matches or not, and the attachments of AttLists.
IngestEvent(p) ==
    /\ proc[p].pc \in {"idle", "done", "failed"}
    /\ calls > 0
    /\ \E conv \in Convs, sid \in Sids \cup {NoSid}, text \in BOOLEAN, match \in BOOLEAN,
          atts \in AttLists :
          /\ match => text
          /\ Set(p, handle_avito_message(conv, sid, text, match, atts))
    /\ calls' = calls - 1
    /\ UNCHANGED <<dialogs, messages, topics, nextTopic, sent, queue, now, timers, policy, faults, prefix, outv>>

\* The bindings of the account an event names, as _ensure_dialog_context
\* finds them: all in place, no such account, an account of another client,
\* an account without a bot, a bot id without a row, a bot without a group
\* chat.
Configs == {"ok", "no_account", "foreign_account", "no_bot_link", "no_bot", "no_chat"}

\* _ensure_dialog_context that accepts every account.
AccountError_Never(config) == "none"

\* Lines 467-475: the ValueError raised on the account and the bot.
AccountError(config) ==
    IF config \in {"no_account", "foreign_account"} THEN "Avito account not found"
    ELSE IF config = "no_bot_link" THEN "Avito account not linked to bot"
    ELSE IF config = "no_bot" THEN "Bot not found"
    ELSE "none"

\* Lines 483-488: the target chat is the Dialog's telegram_chat_id (the chat
\* it was created in) or else the bot's group chat; neither raises.
ChatError(config, rows) ==
    IF config = "no_chat" /\ rows = {} THEN "Bot has no target chat configured"
    ELSE "none"

\* _ensure_dialog_context, line 483: the lookup by (client, avito_dialog_id).
EnsureLookup(p) ==
    /\ proc[p].pc = "resolve"
    /\ LET rows == get_by_avito(proc[p].conv) IN
       IF AccountError(proc[p].config) # "none"
       THEN Set(p, With(proc[p], [pc |-> "failed", res |-> AccountError(proc[p].config)]))
       ELSE IF Cardinality(rows) > 1
       THEN Set(p, With(proc[p], [pc |-> "failed", res |-> "multiple_rows"]))
       ELSE IF ChatError(proc[p].config, rows) # "none"
       THEN Set(p, With(proc[p], [pc |-> "failed", res |-> ChatError(proc[p].config, rows)]))
       ELSE IF rows = {}
       THEN Set(p, With(proc[p], [pc |-> "new_dialog"]))
       ELSE LET d == CHOOSE i \in rows : TRUE
                \* a row the session already holds is not reloaded by a query
                mem == IF proc[p].d = d THEN proc[p].mem ELSE dialogs[d] IN
            Set(p, With(proc[p],
                [d |-> d, mem |-> mem, tid |-> mem.topic,
                 pc |-> IF TopicMode /\ mem.topic = NoTopic
                        THEN "lazy_topic" ELSE "header"]))
    /\ UNCHANGED <<dialogs, messages, topics, nextTopic, sent, queue, now, timers, policy, calls, faults, prefix, outv>>

\* Lines 502-524: no row was found, so a topic is created (an exception of
\* create_topic is not caught here) and the Dialog row inserted.
EnsureNewDialog(p) ==
    /\ proc[p].pc = "new_dialog"
    /\ \E o \in (IF TopicMode THEN CreateOutcomes ELSE {"noid"}) :
          /\ faults' = (IF TopicMode THEN ChargeCreate(o) ELSE faults)
          /\ IF o = "error"
             THEN /\ Set(p, With(proc[p], [pc |-> "failed", res |-> "create_topic"]))
                  /\ UNCHANGED <<dialogs, topics, nextTopic, prefix>>
             ELSE LET t == IF o = "ok" THEN nextTopic ELSE NoTopic
                      row == NewDialogRow(proc[p].conv, t) IN
                  /\ topics' = (IF o = "ok" THEN topics \cup {t} ELSE topics)
                  /\ nextTopic' = (IF o = "ok" THEN nextTopic + 1 ELSE nextTopic)
                  /\ prefix' = (IF o = "ok" THEN Append(prefix, "incoming") ELSE prefix)
                  /\ dialogs' = Append(dialogs, row)
                  /\ Set(p, With(proc[p],
                        [pc |-> "header", d |-> Len(dialogs) + 1, mem |-> row,
                         tid |-> t, created |-> TRUE, tcreated |-> (t # NoTopic)]))
    /\ UNCHANGED <<messages, sent, queue, now, timers, policy, calls, outv>>

\* The lazy creation without its try/except: a failure of create_topic
\* ends the ingest.
EnsureLazyTopic_Raises(p) ==
    /\ proc[p].pc = "lazy_topic"
    /\ \E o \in CreateOutcomes :
          /\ faults' = ChargeCreate(o)
          /\ IF o = "ok"
             THEN LET row == set_topic(proc[p].d, proc[p].mem, nextTopic) IN
                  /\ topics' = topics \cup {nextTopic}
                  /\ nextTopic' = nextTopic + 1
                  /\ prefix' = Append(prefix, "incoming")
                  /\ dialogs' = [dialogs EXCEPT ![proc[p].d] = row]
                  /\ Set(p, With(proc[p], [pc |-> "header", mem |-> row,
                                            tid |-> row.topic, tcreated |-> TRUE]))
             ELSE /\ Set(p, With(proc[p], [pc |-> "failed", res |-> "create_topic"]))
                  /\ UNCHANGED <<dialogs, topics, nextTopic, prefix>>
    /\ UNCHANGED <<messages, sent, queue, now, timers, policy, calls, outv>>

\* Lines 525-545: an existing Dialog without a topic gets one lazily; a
\* failure is only logged.
EnsureLazyTopic(p) ==
    /\ proc[p].pc = "lazy_topic"
    /\ \E o \in CreateOutcomes :
          /\ faults' = ChargeCreate(o)
          /\ IF o = "ok"
             THEN LET row == set_topic(proc[p].d, proc[p].mem, nextTopic) IN
                  /\ topics' = topics \cup {nextTopic}
                  /\ nextTopic' = nextTopic + 1
                  /\ prefix' = Append(prefix, "incoming")
                  /\ dialogs' = [dialogs EXCEPT ![proc[p].d] = row]
                  /\ Set(p, With(proc[p], [pc |-> "header", mem |-> row,
                                            tid |-> row.topic, tcreated |-> TRUE]))
             ELSE /\ Set(p, With(proc[p], [pc |-> "header"]))
                  /\ UNCHANGED <<dialogs, topics, nextTopic, prefix>>
    /\ UNCHANGED <<messages, sent, queue, now, timers, policy, calls, outv>>

\* Advance that goes to the Message row while attachments are left.
Advance_SkipsRest(rec) == With(rec, [pc |-> "persist", cur |-> "none"])

\* Lines 115 and 313: the next attachment, or after the last one the text
\* that no caption has carried yet, or the Message row.
Advance(rec) ==
    IF rec.atts # <<>> THEN With(rec, [pc |-> "attach", cur |-> "none"])
    ELSE IF rec.cap THEN EnterSend(With(rec, [cur |-> "none"]), rec.mem.topic)
    ELSE With(rec, [pc |-> "persist", cur |-> "none"])

\* Where a handler goes once _ensure_dialog_context returned.
AfterContext(rec, mem) ==
    IF rec.op = "order"
    THEN With(rec, [pc |-> "order_send", mem |-> mem])
    ELSE IF rec.op = "msg"
    THEN Advance(With(rec, [mem |-> mem]))
    ELSE With(EnterSend(rec, mem.topic), [mem |-> mem])

\* Lines 547-583: the header is posted when a topic was just created or the
\* intro flag of the copy is false (_send_topic_header swallows every
\* failure), then touch() commits and refreshes the copy.
EnsureHeader(p) ==
    /\ proc[p].pc = "header"
    /\ LET rec == proc[p]
           due == (rec.tcreated \/ ~rec.mem.intro) /\ TopicMode /\ rec.tid # NoTopic IN
       \E o \in (IF due THEN Outcomes(rec.tid) ELSE {"skip"}) :
          LET row == IF o = "ok" THEN Flush(rec.d, rec.mem, [intro |-> TRUE])
                                 ELSE dialogs[rec.d] IN
          /\ faults' = Charge(o)
          /\ sent' = (IF o = "ok" THEN Log(SentRow(rec.d, "header", "none", rec.tid))
                                  ELSE sent)
          /\ dialogs' = [dialogs EXCEPT ![rec.d] = row]
          /\ Set(p, AfterContext(rec, row))
    /\ UNCHANGED <<messages, topics, nextTopic, queue, now, timers, policy, calls, prefix, outv>>

\* The answers of Avito's getVoiceFiles and of the download of the file: a
\* URL and its bytes, no URL for the id, or an HTTP error that raises.
VoiceOutcomes == {"url", "no_url"} \cup (IF faults > 0 THEN {"error"} ELSE {})

\* Lines 115-311, one turn of the loop up to its send: an image without a
\* URL, a voice note without an id or without a URL and every other type are
\* entered as not delivered; an image or a voice note that resolves is sent
\* through _send_with_topic_recovery, with the text as its caption if it is
\* still unused.
Attach(p) ==
    /\ proc[p].pc = "attach"
    /\ LET rec == proc[p]
           a == Head(rec.atts)
           skip(reason) ==
               Advance(With(rec, [ledger |-> Append(rec.ledger, Entry(AttType(a), FALSE, reason)),
                                  atts |-> Tail(rec.atts)]))
           send == With(EnterSend(rec, rec.mem.topic), [cur |-> a, fallback |-> FALSE]) IN
       \E o \in (IF a = "voice" THEN VoiceOutcomes ELSE {"none"}) :
          /\ faults' = (IF o = "error" THEN faults - 1 ELSE faults)
          /\ Set(p, IF a = "image_nourl" THEN skip("no_url")
                    ELSE IF a = "voice_noid" THEN skip("missing_voice_id")
                    ELSE IF a = "image" THEN send
                    ELSE IF a = "voice"
                    THEN (IF o = "url" THEN send
                          ELSE IF o = "no_url" THEN skip("no_url")
                          ELSE With(rec, [pc |-> "failed", res |-> "voice_file"]))
                    ELSE skip("unsupported"))
    /\ UNCHANGED <<dialogs, messages, topics, nextTopic, sent, queue, now, timers, policy, calls, prefix, outv>>

----------------------------------------------------------------------------
\* _execute_with_retry and _send_with_topic_recovery

\* _execute_with_retry with the bound of the loop off by one.
_execute_with_retry_OffByOne(attempt, o) ==
    IF o = "ok" THEN "return"
    ELSE IF o = "429" /\ attempt <= Retries THEN "again"
    ELSE "raise"

\* One pass of the loop of _execute_with_retry (lines 1495-1509) on the
\* outcome o of send_callable: return the result, sleep and go round again,
\* or re-raise.
_execute_with_retry(attempt, o) ==
    IF o = "ok" THEN "return"
    ELSE IF o = "429" /\ attempt < Retries THEN "again"
    ELSE "raise"

SendKind(op) == IF op = "fire" THEN "auto" ELSE "client"

\* Lines 154-172 and 279-307: a photo or a voice note that was sent is
\* entered in the ledger as delivered, the caption is used up, and the loop
\* goes on; a text send leads to the Message row.
AfterSend(rec) ==
    IF rec.op = "msg" /\ rec.cur # "none"
    THEN Advance(With(rec, [ledger |-> Append(rec.ledger, Entry(AttType(rec.cur), TRUE, "none")),
                            atts |-> Tail(rec.atts), cap |-> FALSE]))
    ELSE rec

\* An exception leaves _send_with_topic_recovery.  Lines 241-277: around
\* send_voice it is caught and the note is sent once more as a document, from
\* the topic id the copy holds by then; everywhere else it leaves the
\* handler.
Raise(rec, res) ==
    IF rec.op = "msg" /\ rec.cur = "voice" /\ ~rec.fallback
    THEN With(EnterSend(rec, rec.mem.topic), [fallback |-> TRUE])
    ELSE With(rec, [pc |-> "failed", res |-> res])

AfterSendPc(op) == IF op = "fire" THEN "fire_persist" ELSE "persist"

\* Lines 1130-1135 and 1183: one call of send_callable(thread_id_int) under
\* _execute_with_retry.  An exception of the first pass that
\* _is_topic_missing_error recognises enters the recovery; every other one,
\* and every exception of the pass after the recovery, propagates.
Exec(p) ==
    /\ proc[p].pc = "exec"
    /\ LET rec == proc[p] IN
       \E o \in Outcomes(rec.thread) :
          LET step == _execute_with_retry(rec.attempt, o) IN
          /\ faults' = Charge(o)
          /\ sent' = (IF step = "return"
                      THEN Log(SentRow(rec.d, SendKind(rec.op), rec.phase, rec.thread))
                      ELSE sent)
          /\ Set(p, IF step = "return"
                    THEN AfterSend(With(rec, [pc |-> AfterSendPc(rec.op), outs |-> Append(rec.outs, o),
                                    tgid |-> IF rec.tgid = 0 THEN BagCardinality(sent) + 1 ELSE rec.tgid]))
                    ELSE IF step = "again"
                    THEN With(rec, [attempt |-> rec.attempt + 1, outs |-> Append(rec.outs, o)])
                    ELSE IF rec.phase = "first" /\ _is_topic_missing_error(o)
                    THEN With(rec, [pc |-> "heal_clear", outs |-> Append(rec.outs, o)])
                    ELSE Raise(With(rec, [outs |-> Append(rec.outs, o)]), o))
    /\ UNCHANGED <<dialogs, messages, topics, nextTopic, queue, now, timers, policy, calls, prefix, outv>>

\* Lines 1141-1145: the stored id is cleared first.
HealClear(p) ==
    /\ proc[p].pc = "heal_clear"
    /\ LET rec == proc[p]
           row == set_topic(rec.d, rec.mem, NoTopic) IN
       /\ dialogs' = [dialogs EXCEPT ![rec.d] = row]
       /\ Set(p, LET next == With(rec, [mem |-> row, stale |-> rec.thread, tid |-> NoTopic,
                                        ev |-> Append(rec.ev, "clear")]) IN
                 IF TopicMode THEN With(next, [pc |-> "heal_create"])
                              ELSE Raise(next, "missing"))
    /\ UNCHANGED <<messages, topics, nextTopic, sent, queue, now, timers, policy, calls, faults, prefix, outv>>

\* Lines 1147-1159: a new topic is created and bound; an exception of
\* create_topic, or an answer without an id, leaves the recovery.
HealCreate(p) ==
    /\ proc[p].pc = "heal_create"
    /\ LET rec == proc[p] IN
       \E o \in CreateOutcomes :
          /\ faults' = ChargeCreate(o)
          /\ IF o = "ok"
             THEN LET row == set_topic(rec.d, rec.mem, nextTopic) IN
                  /\ topics' = topics \cup {nextTopic}
                  /\ nextTopic' = nextTopic + 1
                  /\ prefix' = Append(prefix, "incoming")
                  /\ dialogs' = [dialogs EXCEPT ![rec.d] = row]
                  /\ Set(p, With(rec, [pc |-> "heal_header", mem |-> row, tid |-> row.topic,
                                       ev |-> rec.ev \o <<"create", "store">>]))
             ELSE /\ Set(p, Raise(With(rec, [ev |-> Append(rec.ev, "create_failed")]),
                                  "create_topic"))
                  /\ UNCHANGED <<dialogs, topics, nextTopic, prefix>>
    /\ UNCHANGED <<messages, sent, queue, now, timers, policy, calls, outv>>

\* Lines 1161-1183: the header is posted to the new topic (a failure only
\* leaves the intro flag false) and the send is handed to _execute_with_retry
\* once more, with the new thread id.
HealHeader(p) ==
    /\ proc[p].pc = "heal_header"
    /\ LET rec == proc[p] IN
       \E o \in Outcomes(rec.tid) :
          LET row == IF o = "ok" THEN Flush(rec.d, rec.mem, [intro |-> TRUE])
                                 ELSE dialogs[rec.d] IN
          /\ faults' = Charge(o)
          /\ sent' = (IF o = "ok" THEN Log(SentRow(rec.d, "header", "none", rec.tid))
                                  ELSE sent)
          /\ dialogs' = [dialogs EXCEPT ![rec.d] = row]
          /\ Set(p, With(rec, [pc |-> "exec", thread |-> rec.tid, attempt |-> 0,
                               phase |-> "retry", outs |-> <<>>,
                               mem |-> IF o = "ok" THEN row ELSE rec.mem,
                               ev |-> rec.ev \o <<IF o = "ok" THEN "header" ELSE "header_failed",
                                                  "retry">>]))
    /\ UNCHANGED <<messages, topics, nextTopic, queue, now, timers, policy, calls, prefix, outv>>

\* handle_avito_order_event, lines 416-427: the notification is sent with
\* tg.send_message directly; whatever it raises leaves the handler.
OrderSend(p) ==
    /\ proc[p].pc = "order_send"
    /\ LET rec == proc[p] IN
       \E o \in Outcomes(rec.tid) :
          /\ faults' = Charge(o)
          /\ sent' = (IF o = "ok" THEN Log(SentRow(rec.d, "order", "none", rec.tid))
                                  ELSE sent)
          /\ Set(p, IF o = "ok"
                    THEN With(rec, [pc |-> "persist", tgid |-> BagCardinality(sent) + 1])
                    ELSE With(rec, [pc |-> "failed", res |-> o]))
    /\ UNCHANGED <<dialogs, messages, topics, nextTopic, queue, now, timers, policy, calls, prefix, outv>>

\* Lines 359-370 and 429-436: the one Message row of the event; without a
\* remote id the Telegram message id is the source key.
SourceKey(rec) ==
    IF rec.sid # NoSid THEN rec.sid
    ELSE IF rec.tgid # 0 THEN "t" \o ToString(rec.tgid)
    ELSE NoSid

Persist(p) ==
    /\ proc[p].pc = "persist"
    /\ LET rec == proc[p]
           topic == IF rec.op = "order" THEN rec.tid ELSE rec.mem.topic IN
       \E o \in EditOutcomes(topic) :
          /\ faults' = Charge(o)
          /\ prefix' = _update_topic_status(topic, "incoming", o)
          /\ messages' = Append(messages,
                With(NewMessageRow(rec.d, "avito", SourceKey(rec), "delivered", FALSE,
                                   rec.op = "msg"),
                     [attachments |-> rec.ledger]))
          /\ Set(p, With(rec, [pc |-> "evaluate"]))
    /\ UNCHANGED <<dialogs, topics, nextTopic, sent, queue, now, timers, policy, calls, outv>>

\* _maybe_send_auto_reply: when the policy is eligible on the handler's copy
\* of the Dialog, scheduled_at = utcnow() is stored and a runner() armed.
Evaluate(p) ==
    /\ proc[p].pc = "evaluate"
    /\ LET rec == proc[p] IN
       IF Eligible(rec.mem.lastSent, now)
       THEN LET row == Flush(rec.d, rec.mem, [sched |-> now]) IN
            \* utcnow() has microsecond resolution: two schedules of a
            \* Dialog are never armed at the same instant
            /\ \A k \in 1..Len(timers) : timers[k] # [d |-> rec.d, at |-> now]
            /\ dialogs' = [dialogs EXCEPT ![rec.d] = row]
            /\ timers' = Append(timers, [d |-> rec.d, at |-> now])
            /\ Set(p, With(rec, [pc |-> "done", res |-> "ok", mem |-> row]))
       ELSE /\ Set(p, With(rec, [pc |-> "done", res |-> "ok"]))
            /\ UNCHANGED <<dialogs, timers>>
    /\ UNCHANGED <<messages, topics, nextTopic, sent, queue, now, policy, calls, faults, prefix, outv>>

----------------------------------------------------------------------------
\* send_portal_text_message (routes/dialogs.py loads the Dialog first)

PortalBegin(p) ==
    /\ proc[p].pc \in {"idle", "done", "failed"}
    /\ calls > 0
    /\ \E d \in 1..Len(dialogs) :
          Set(p, With(IdleProc, [pc |-> "portal_send", op |-> "portal",
                                 conv |-> dialogs[d].conv, d |-> d, mem |-> dialogs[d],
                                 tid |-> dialogs[d].topic, text |-> TRUE]))
    /\ calls' = calls - 1
    /\ UNCHANGED <<dialogs, messages, topics, nextTopic, sent, queue, now, timers, policy, faults, prefix, outv>>

\* Lines 1750-1765: tg.send_message directly; every exception becomes a
\* ValueError of the handler.
PortalSend(p) ==
    /\ proc[p].pc = "portal_send"
    /\ LET rec == proc[p] IN
       \E o \in Outcomes(rec.tid) :
          /\ faults' = Charge(o)
          /\ sent' = (IF o = "ok" THEN Log(SentRow(rec.d, "portal", "none", rec.tid))
                                  ELSE sent)
          /\ Set(p, IF o = "ok"
                    THEN With(rec, [pc |-> "portal_persist", tgid |-> BagCardinality(sent) + 1])
                    ELSE With(rec, [pc |-> "failed", res |-> o]))
    /\ UNCHANGED <<dialogs, messages, topics, nextTopic, queue, now, timers, policy, calls, prefix, outv>>

\* Lines 1776-1815: the operator's Message (status sent), touch(), and the
\* avito.send_message job.
PortalPersist(p) ==
    /\ proc[p].pc = "portal_persist"
    /\ LET rec == proc[p]
           topic == dialogs[rec.d].topic IN
       \E o \in EditOutcomes(topic) :
          /\ faults' = Charge(o)
          /\ prefix' = _update_topic_status(topic, "outgoing", o)
          /\ messages' = Append(messages,
                NewMessageRow(rec.d, "telegram", "t" \o ToString(rec.tgid), "sent", FALSE, FALSE))
          /\ queue' = Append(queue, Job(rec.d, Len(messages) + 1, "text", "outgoing", topic))
          /\ Set(p, With(rec, [pc |-> "done", res |-> "ok", mem |-> dialogs[rec.d]]))
    /\ UNCHANGED <<dialogs, topics, nextTopic, sent, now, timers, policy, calls, outv>>

----------------------------------------------------------------------------
\* runner() of _schedule_auto_reply and _execute_scheduled_auto_reply

Remove(seq, k) == SubSeq(seq, 1, k - 1) \o SubSeq(seq, k + 1, Len(seq))

\* asyncio.sleep(AUTO_REPLY_DELAY_SECONDS) is over; lines 1269-1275: the
\* Dialog is loaded in a session of its own and the firing returns at once
\* when the stored schedule is null or another one.
FireBegin(p) ==
    /\ proc[p].pc \in {"idle", "done", "failed"}
    /\ \E k \in 1..Len(timers) :
          LET t == timers[k]
              mem == dialogs[t.d] IN
          /\ now >= t.at + DelaySlots
          /\ timers' = Remove(timers, k)
          /\ Set(p, With(IdleProc,
                [op |-> "fire", d |-> t.d, conv |-> mem.conv, mem |-> mem,
                 schedAt |-> t.at, seen |-> Len(messages),
                 pc |-> IF mem.sched = NoTime \/ mem.sched # t.at THEN "done" ELSE "fire_check",
                 res |-> IF mem.sched = NoTime \/ mem.sched # t.at THEN "stale" ELSE "none"]))
    /\ UNCHANGED <<dialogs, messages, topics, nextTopic, sent, queue, now, policy, calls, faults, prefix, outv>>

\* Lines 1277-1317: the policy, an operator's message since the schedule,
\* the window and the last auto-reply are checked; each failing check
\* clears the schedule and returns.
FireVerdict(rec) ==
    IF ~PolicyOn THEN "policy_off"
    ELSE IF has_outgoing_since(rec.d, rec.schedAt) THEN "preempted"
    ELSE IF ~InWindow(now) THEN "outside_window"
    ELSE IF AnsweredInWindow(rec.mem.lastSent, now) THEN "already_sent"
    ELSE "go"

FireCheck(p) ==
    /\ proc[p].pc = "fire_check"
    /\ LET rec == proc[p]
           v == FireVerdict(rec)
           row == clear_auto_reply_schedule(rec.d, rec.mem) IN
       IF v = "go"
       THEN /\ Set(p, With(rec, [pc |-> "resolve"]))
            /\ UNCHANGED dialogs
       ELSE /\ dialogs' = [dialogs EXCEPT ![rec.d] = row]
            /\ Set(p, With(rec, [pc |-> "done", res |-> v, mem |-> row]))
    /\ UNCHANGED <<messages, topics, nextTopic, sent, queue, now, timers, policy, calls, faults, prefix, outv>>

\* _send_auto_reply_message, lines 1367-1403: the auto-reply's Message,
\* touch(), the avito.send_message job.
FirePersist(p) ==
    /\ proc[p].pc = "fire_persist"
    /\ LET rec == proc[p]
           topic == dialogs[rec.d].topic IN
       \E o \in EditOutcomes(topic) :
          /\ faults' = Charge(o)
          /\ prefix' = _update_topic_status(topic, "auto", o)
          /\ messages' = Append(messages,
                NewMessageRow(rec.d, "telegram", "t" \o ToString(rec.tgid), "sent", TRUE, FALSE))
          /\ queue' = Append(queue, Job(rec.d, Len(messages) + 1, "text", "auto", topic))
          /\ Set(p, With(rec, [pc |-> "fire_mark", mem |-> dialogs[rec.d]]))
    /\ UNCHANGED <<dialogs, topics, nextTopic, sent, now, timers, policy, calls, outv>>

\* Line 1336: mark_auto_reply_sent(dialog, utcnow()).
FireMark(p) ==
    /\ proc[p].pc = "fire_mark"
    /\ LET rec == proc[p]
           row == mark_auto_reply_sent(rec.d, rec.mem, now) IN
       /\ dialogs' = [dialogs EXCEPT ![rec.d] = row]
       /\ Set(p, With(rec, [pc |-> "done", res |-> "sent", mem |-> row]))
    /\ UNCHANGED <<messages, topics, nextTopic, sent, queue, now, timers, policy, calls, faults, prefix, outv>>

----------------------------------------------------------------------------
\* handle_telegram_message: an operator writes in the topic of a Dialog

\* Lines 1574-1647: the Dialog is found by its topic; the operator's Message
\* (a text, with or without a photo) is created and touch() refreshes the
\* copy.
handle_telegram_message(p, id, photo) ==
    /\ proc[p].pc \in {"idle", "done", "failed"}
    /\ calls > 0
    /\ \E d \in 1..Len(dialogs) :
          /\ dialogs[d].topic # NoTopic /\ dialogs[d].topic \in topics
          /\ messages' = Append(messages,
                NewMessageRow(d, "telegram", id, "sent", FALSE, FALSE))
          /\ Set(p, With(IdleProc, [pc |-> "tg_clear", op |-> "telegram", d |-> d,
                                    conv |-> dialogs[d].conv, mem |-> dialogs[d],
                                    tid |-> dialogs[d].topic, text |-> TRUE,
                                    photo |-> photo, tgid |-> Len(messages) + 1]))
    /\ calls' = calls - 1
    /\ UNCHANGED <<dialogs, topics, nextTopic, sent, queue, now, timers, policy, faults, prefix, outv>>

\* The webhook of a message an operator has just written: Telegram gives it
\* a message_id no earlier message of the chat has.
TelegramRecord(p) ==
    /\ calls > 0
    /\ \E photo \in BOOLEAN : handle_telegram_message(p, "u" \o ToString(calls), photo)

\* Telegram delivers an update once more when the webhook did not answer it
\* in time: the same message, with the same message_id.
TelegramRedelivered(p) ==
    \E k \in 1..Len(messages), photo \in BOOLEAN :
       /\ messages[k].direction = "telegram"
       /\ messages[k].sid \in {"u" \o ToString(c) : c \in 1..OutCalls}
       /\ handle_telegram_message(p, messages[k].sid, photo)

\* Lines 1647-1724: the schedule is cleared, one job per text and per photo
\* is queued for Avito, all with the id of the one Message, and the topic's
\* prefix is set.
TelegramClear(p) ==
    /\ proc[p].pc = "tg_clear"
    /\ LET rec == proc[p]
           row == clear_auto_reply_schedule(rec.d, rec.mem)
           topic == IF row.topic # NoTopic THEN row.topic ELSE rec.tid
           text == Job(rec.d, rec.tgid, "text", "outgoing", rec.tid)
           image == Job(rec.d, rec.tgid, "image", "outgoing", rec.tid) IN
       \E o \in EditOutcomes(topic) :
          /\ faults' = Charge(o)
          /\ prefix' = _update_topic_status(topic, "outgoing", o)
          /\ dialogs' = [dialogs EXCEPT ![rec.d] = row]
          /\ queue' = queue \o (IF rec.photo THEN <<text, image>> ELSE <<text>>)
          /\ Set(p, With(rec, [pc |-> "done", res |-> "ok", mem |-> row]))
    /\ UNCHANGED <<messages, topics, nextTopic, sent, now, timers, policy, calls, outv>>

----------------------------------------------------------------------------
\* worker.main, finalize_outbound_status, handle_outbound_failure

\* The remote id Avito gives to the next message it accepts.
NewRemoteId == "r" \o ToString(Cardinality(remote) + 1)

\* MessageRepository.mark_status: an UPDATE of the status by id, whatever
\* the status of the row is.
mark_status(mid, status) == [messages EXCEPT ![mid].status = status]

\* worker.main, lines 429-435: the next job is taken off the queue.
WorkerTake ==
    /\ wk.pc = "idle"
    /\ queue # <<>>
    /\ wk' = [IdleWorker EXCEPT !.pc = "send", !.job = Head(queue)]
    /\ queue' = Tail(queue)
    /\ UNCHANGED <<dialogs, messages, topics, nextTopic, sent, now, timers, policy, proc, calls,
                   faults, prefix, echo, remote>>

\* Lines 443-469: avito.send_message, or the download, the upload and
\* send_image_message of a photo; Avito accepts the message under a new id,
\* or one of the calls raises.
WorkerSend ==
    /\ wk.pc = "send"
    /\ \E o \in {"ok"} \cup (IF faults > 0 THEN {"error"} ELSE {}) :
          /\ faults' = Charge(o)
          /\ IF o = "ok"
             THEN /\ remote' = remote \cup {NewRemoteId}
                  /\ wk' = [wk EXCEPT !.pc = "remember", !.rid = NewRemoteId, !.sendOk = TRUE]
             ELSE /\ wk' = [wk EXCEPT !.pc = "failure"]
                  /\ UNCHANGED remote
    /\ UNCHANGED <<dialogs, messages, topics, nextTopic, sent, queue, now, timers, policy, proc,
                   calls, prefix, echo>>

\* Lines 471-477: the id is written to the outbound cache, inside the same
\* try as the send; an error of the cache is handled as a failed send.
WorkerRemember ==
    /\ wk.pc = "remember"
    /\ \E o \in {"ok"} \cup (IF faults > 0 THEN {"error"} ELSE {}) :
          /\ faults' = Charge(o)
          /\ echo' = (IF o = "ok" THEN echo \cup {wk.rid} ELSE echo)
          /\ wk' = [wk EXCEPT !.pc = IF o = "ok" THEN "finalize" ELSE "failure"]
    /\ UNCHANGED <<dialogs, messages, topics, nextTopic, sent, queue, now, timers, policy, proc,
                   calls, prefix, remote>>

\* finalize_outbound_status: the Message is marked delivered, the Dialog
\* looked up (scalar_one_or_none raises on two rows, into the except of
\* worker.main) and the prefix of its topic set to status_on_success; a
\* failure of the edit is only logged.
WorkerFinalize ==
    /\ wk.pc = "finalize"
    /\ LET job == wk.job
           rows == get_by_avito(dialogs[job.d].conv)
           row == dialogs[CHOOSE i \in rows : TRUE]
           topic == IF row.topic # NoTopic THEN row.topic ELSE job.topic IN
       /\ messages' = mark_status(job.mid, "delivered")
       /\ IF Cardinality(rows) > 1
          THEN /\ wk' = [wk EXCEPT !.pc = "failure"]
               /\ UNCHANGED <<faults, prefix>>
          ELSE \E o \in EditOutcomes(topic) :
                  /\ faults' = Charge(o)
                  /\ prefix' = _update_topic_status(topic, job.status_on_success, o)
                  /\ wk' = [wk EXCEPT !.pc = "idle"]
    /\ UNCHANGED <<dialogs, topics, nextTopic, sent, queue, now, timers, policy, proc, calls,
                   echo, remote>>

\* handle_outbound_failure: the Message is marked failed and the prefix of
\* the Dialog's topic put back to incoming; the lookup of the Dialog is
\* outside every try, so two rows end worker.main.
WorkerFailure ==
    /\ wk.pc = "failure"
    /\ LET job == wk.job
           rows == get_by_avito(dialogs[job.d].conv)
           row == dialogs[CHOOSE i \in rows : TRUE] IN
       /\ messages' = mark_status(job.mid, "failed")
       /\ IF Cardinality(rows) > 1
          THEN /\ wk' = [wk EXCEPT !.pc = "crashed"]
               /\ UNCHANGED <<faults, prefix>>
          ELSE \E o \in EditOutcomes(row.topic) :
                  /\ faults' = Charge(o)
                  /\ prefix' = _update_topic_status(row.topic, "incoming", o)
                  /\ wk' = [wk EXCEPT !.pc = "idle"]
    /\ UNCHANGED <<dialogs, topics, nextTopic, sent, queue, now, timers, policy, proc, calls,
                   echo, remote>>

----------------------------------------------------------------------------
\* The ingestion paths see a message the worker has sent.

\* TaskQueue.pop_outbound_message: GET and DELETE of the key.
pop_outbound_message(rid) == echo \ {rid}

\* avito_poller.process_chat, lines 285-347, on a message of the account
\* itself: it is skipped when its id is in the outbound cache (the key is
\* deleted by the lookup), and otherwise by its direction and its author.
ObservePoller ==
    /\ \E rid \in remote :
          echo' = pop_outbound_message(rid)
    /\ UNCHANGED <<dialogs, messages, topics, nextTopic, sent, queue, now, timers, policy, proc,
                   calls, faults, prefix, remote, wk>>

\* worker.process_avito_webhook_message, lines 223-251, on the webhook of a
\* message of the account itself: the outbound cache is not read; the
\* message is skipped when its author_id equals the account's user id, which
\* is known only when _ensure_access_token and _get_account_user_id did not
\* raise.  Otherwise it goes to handle_avito_message.
ObserveWebhook(p) ==
    /\ proc[p].pc \in {"idle", "done", "failed"}
    /\ calls > 0
    /\ \E rid \in remote, conv \in Convs :
       \E o \in {"ok"} \cup (IF faults > 0 THEN {"error"} ELSE {}) :
          /\ faults' = Charge(o)
          /\ Set(p, IF o = "ok"
                    THEN With(IdleProc, [pc |-> "done", op |-> "msg", conv |-> conv,
                                         sid |-> rid, res |-> "echo"])
                    ELSE handle_avito_message(conv, rid, TRUE, FALSE, <<>>))
    /\ calls' = calls - 1
    /\ UNCHANGED <<dialogs, messages, topics, nextTopic, sent, queue, now, timers, policy, prefix, outv>>

\* The wall clock.
Tick ==
    /\ now < MaxNow
    /\ now' = now + 1
    /\ UNCHANGED <<dialogs, messages, topics, nextTopic, sent, queue, timers, policy, proc, calls, faults, prefix, outv>>

\* An operator deletes a forum topic in the Telegram group (one of the
\* disturbances the fault budget counts).
DeleteTopic ==
    /\ faults > 0
    /\ \E t \in topics : topics' = topics \ {t}
    /\ faults' = faults - 1
    /\ UNCHANGED <<dialogs, messages, nextTopic, sent, queue, now, timers, policy, proc, calls, prefix, outv>>

----------------------------------------------------------------------------
\* Ingestion into an empty store: two tasks, any events.

Init ==
    /\ dialogs = <<>>
    /\ messages = <<>>
    /\ topics = {}
    /\ nextTopic = 1
    /\ sent = EmptyBag
    /\ queue = <<>>
    /\ now = 0
    /\ timers = <<>>
    /\ policy = PolicyOff
    /\ proc = [p \in Procs |-> IdleProc]
    /\ calls = MaxCalls
    /\ faults = MaxFaults
    /\ prefix = <<>>
    /\ echo = {}
    /\ remote = {}
    /\ wk = IdleWorker

Next ==
    \E p \in Procs :
        \/ IngestBegin(p)
        \/ EnsureLookup(p)
        \/ EnsureNewDialog(p)
        \/ EnsureLazyTopic(p)
        \/ EnsureHeader(p)
        \/ Exec(p)
        \/ OrderSend(p)
        \/ Persist(p)
        \/ Evaluate(p)

Spec == Init /\ [][Next]_vars

----------------------------------------------------------------------------
\* Sends to a Dialog that exists and is bound to a topic, with operators
\* deleting topics: two tasks, any events.

HealCalls == 2
HealFaults == 2

HealInit ==
    /\ dialogs = <<[NewDialogRow("c1", 1) EXCEPT !.intro = TRUE]>>
    /\ messages = <<>>
    /\ topics = {1}
    /\ nextTopic = 2
    /\ sent = EmptyBag
    /\ queue = <<>>
    /\ now = 0
    /\ timers = <<>>
    /\ policy = PolicyOff
    /\ proc = [p \in Procs |-> IdleProc]
    /\ calls = HealCalls
    /\ faults = HealFaults
    /\ prefix = <<"incoming">>
    /\ echo = {}
    /\ remote = {}
    /\ wk = IdleWorker

HealNext ==
    \/ DeleteTopic
    \/ \E p \in Procs :
        \/ IngestBegin(p)
        \/ EnsureLookup(p)
        \/ EnsureLazyTopic(p)
        \/ EnsureHeader(p)
        \/ Exec(p)
        \/ HealClear(p)
        \/ HealCreate(p)
        \/ HealHeader(p)
        \/ OrderSend(p)
        \/ Persist(p)
        \/ Evaluate(p)
        \/ PortalBegin(p)
        \/ PortalSend(p)
        \/ PortalPersist(p)

SpecHeal == HealInit /\ [][HealNext]_vars

----------------------------------------------------------------------------
\* C1: every remote message id has at most one Message row of direction
\* avito, however the ingests of that id interleave.
C1_OneMessagePerSourceId ==
    \A sid \in Sids : Cardinality(get_by_source("avito", sid)) <= 1

\* C2: a conversation has at most one Dialog row, and no ingest fails on
\* resolving its Dialog, however the ingests of a new conversation interleave.
C2_OneDialogPerConversation ==
    /\ \A conv \in Convs : Cardinality(get_by_avito(conv)) <= 1
    /\ \A p \in Procs : proc[p].res # "multiple_rows"

----------------------------------------------------------------------------
\* The auto-reply of a Dialog that exists, under an enabled policy: events,
\* operators' messages and timers, with the clock running.

AutoCalls == 2

Policies ==
    {[enabled |-> TRUE, text |-> TRUE, always |-> TRUE, start |-> 0, end |-> 0],
     [enabled |-> TRUE, text |-> TRUE, always |-> FALSE, start |-> 0, end |-> DaySlots - 1],
     [enabled |-> TRUE, text |-> TRUE, always |-> FALSE, start |-> DaySlots - 1, end |-> 1]}

AutoInit ==
    /\ dialogs = <<[NewDialogRow("c1", 1) EXCEPT !.intro = TRUE]>>
    /\ messages = <<>>
    /\ topics = {1}
    /\ nextTopic = 2
    /\ sent = EmptyBag
    /\ queue = <<>>
    /\ now = 0
    /\ timers = <<>>
    /\ policy \in Policies
    /\ proc = [p \in Procs |-> IdleProc]
    /\ calls = AutoCalls
    /\ faults = 0
    /\ prefix = <<"incoming">>
    /\ echo = {}
    /\ remote = {}
    /\ wk = IdleWorker

AutoNext ==
    \/ Tick
    \/ \E p \in Procs :
        \/ IngestBegin(p)
        \/ EnsureLookup(p)
        \/ EnsureHeader(p)
        \/ Exec(p)
        \/ OrderSend(p)
        \/ Persist(p)
        \/ Evaluate(p)
        \/ FireBegin(p)
        \/ FireCheck(p)
        \/ FirePersist(p)
        \/ FireMark(p)
        \/ TelegramRecord(p)
        \/ TelegramClear(p)

SpecAuto == AutoInit /\ [][AutoNext]_vars

----------------------------------------------------------------------------
\* Properties of the auto-reply (SpecAuto).

WindowOf(t) == _calculate_window_start(t, policy.always, policy.start, policy.end)

AutoRows(d) == {r \in BagToSet(sent) : r.d = d /\ r.kind = "auto"}

\* C3: a Dialog gets at most one auto-reply per eligibility window: no two
\* auto-reply sends of a Dialog fall into the same local day (always-on) or
\* the same occurrence of the bounded window.
C3_OneAutoReplyPerWindow ==
    \A d \in 1..Len(dialogs) :
        \A r1, r2 \in AutoRows(d) :
            /\ CopiesIn(r1, sent) = 1
            /\ r1 # r2 => WindowOf(r1.at) # WindowOf(r2.at)

\* C4: a firing that finds its schedule stored and an operator's Message
\* (direction telegram, no auto-reply) recorded at or after scheduledAt and
\* before the firing began sends nothing to Telegram, queues nothing for
\* Avito, persists no Message and leaves the schedule cleared; no firing
\* ever gets past its checks with such a Message in the table.
C4_OperatorPreempts ==
    [][\A p \in Procs :
          LET r == proc[p]
              operator == \E i \in 1..r.seen :
                              /\ messages[i].dialog = r.d
                              /\ messages[i].direction = "telegram"
                              /\ ~messages[i].auto
                              /\ messages[i].at >= r.schedAt
          IN
          r.op = "fire" /\ operator =>
              /\ r.pc \in {"fire_check", "done"}
              /\ r.pc = "done" => r.res \in {"stale", "preempted", "policy_off"}
              /\ (r.pc = "fire_check" /\ proc'[p] # r) =>
                    /\ proc'[p].pc = "done" /\ proc'[p].res = "preempted"
                    /\ sent' = sent /\ messages' = messages /\ queue' = queue
                    /\ dialogs'[r.d].sched = NoTime
    ]_vars

C4_Witness ==
    \E p \in Procs :
        /\ proc[p].op = "fire" /\ proc[p].pc = "done" /\ proc[p].res = "preempted"
        /\ dialogs[proc[p].d].sched = NoTime
        /\ AutoRows(proc[p].d) = {}
        /\ \E i \in 1..proc[p].seen : ~messages[i].auto /\ messages[i].at >= proc[p].schedAt
                                       /\ messages[i].direction = "telegram"

\* C5: a firing sends only while the Dialog's stored schedule is its own
\* scheduledAt, that is, while it is the timer of the most recent evaluate
\* and has not been cancelled; with any other stored value it does nothing.
C5_OnlyCurrentTimerSends ==
    [][\A p \in Procs :
          (proc[p].op = "fire" /\ proc[p].pc = "exec" /\ proc'[p].pc = "fire_persist") =>
              dialogs[proc[p].d].sched = proc[p].schedAt
    ]_vars

----------------------------------------------------------------------------
\* Properties of the recovery (SpecHeal).

Last(seq) == seq[Len(seq)]

Recovered(r) == r.phase = "retry" /\ r.pc \in {"persist", "fire_persist"}

\* C6: a thread-not-found failure of the first pass always enters the
\* recovery, whose steps come in the order clear, create and store, header,
\* one more pass of the send against the new thread; when that pass
\* succeeds the Dialog's topic id is not the one from before the failure.
C6_RecoveryInOrder ==
    \A p \in Procs :
        LET r == proc[p] IN
        /\ (r.pc = "failed" /\ r.phase = "first") => r.res # "missing"
        /\ r.pc = "heal_create" =>
              r.ev = <<"clear">> /\ r.mem.topic = NoTopic
        /\ r.pc = "heal_header" =>
              /\ r.ev = <<"clear", "create", "store">>
              /\ r.mem.topic = r.tid /\ r.tid \notin {NoTopic, r.stale}
        /\ r.phase = "retry" =>
              /\ Len(r.ev) = 5 /\ r.ev[5] = "retry"
              /\ SubSeq(r.ev, 1, 3) = <<"clear", "create", "store">>
              /\ r.ev[4] \in {"header", "header_failed"}
              /\ r.thread = r.tid /\ r.tid \notin {NoTopic, r.stale}
        /\ Recovered(r) =>
              /\ dialogs[r.d].topic # r.stale
              /\ \E row \in BagToSet(sent) :
                    row.d = r.d /\ row.pass = "retry" /\ row.thread = r.tid

C6_Witness ==
    \E p \in Procs :
        /\ Recovered(proc[p])
        /\ proc[p].ev[4] = "header"
        /\ dialogs[proc[p].d].topic = proc[p].tid

\* C7: every send made by the pass after a recovery went to the topic the
\* Dialog row was bound to at that moment.
C7_SendsTargetStoredTopic ==
    \A row \in BagToSet(sent) : row.pass = "retry" => row.thread = row.bound

C9_MissingThreadEntersRecovery ==
    \A p \in Procs :
        (proc[p].pc = "failed" /\ proc[p].res = "missing") => proc[p].phase = "retry"

\* C10: one _execute_with_retry call makes at most Retries + 1 calls of the
\* send; a second call follows only a 429; it returns only from a call that
\* succeeded and raises only from one that failed.
C10_RetryAtMostOnce ==
    \A p \in Procs :
        LET r == proc[p] IN
        /\ Len(r.outs) <= Retries + 1
        /\ \A i \in 1..(Len(r.outs) - 1) : r.outs[i] = "429"
        /\ r.pc = "exec" => Len(r.outs) = r.attempt /\ r.attempt <= Retries
        /\ (r.pc \in {"persist", "fire_persist"} /\ r.outs # <<>>) => Last(r.outs) = "ok"
        /\ (r.pc \in {"failed", "heal_clear", "heal_create", "heal_header"} /\ r.outs # <<>>) =>
              Last(r.outs) # "ok"

C10_Witness ==
    \E p \in Procs : proc[p].pc = "persist" /\ proc[p].outs = <<"429", "ok">>

----------------------------------------------------------------------------
\* The outbound side: operators write in the topic of a Dialog that exists,
\* the worker sends their jobs to Avito, and the poller and the webhook
\* worker see what was sent.

OutInit ==
    /\ dialogs = <<[NewDialogRow("c1", 1) EXCEPT !.intro = TRUE]>>
    /\ messages = <<>>
    /\ topics = {1}
    /\ nextTopic = 2
    /\ sent = EmptyBag
    /\ queue = <<>>
    /\ now = 0
    /\ timers = <<>>
    /\ policy = PolicyOff
    /\ proc = [p \in Procs |-> IdleProc]
    /\ calls = OutCalls
    /\ faults = OutFaults
    /\ prefix = <<"incoming">>
    /\ echo = {}
    /\ remote = {}
    /\ wk = IdleWorker

OutNext ==
    \/ WorkerTake
    \/ WorkerSend
    \/ WorkerRemember
    \/ WorkerFinalize
    \/ WorkerFailure
    \/ ObservePoller
    \/ \E p \in Procs :
        \/ TelegramRecord(p)
        \/ TelegramRedelivered(p)
        \/ TelegramClear(p)
        \/ ObserveWebhook(p)
        \/ EnsureLookup(p)
        \/ EnsureHeader(p)
        \/ Exec(p)
        \/ Persist(p)
        \/ Evaluate(p)

SpecOut == OutInit /\ [][OutNext]_vars

\* C11: no message the worker has sent to Avito is ever taken in as a
\* client's message, on the poller's or the webhook worker's path: no ingest
\* of the remote id of such a message gets as far as forwarding it to the
\* topic, and no Message of direction avito carries such an id.
C11_EchoNeverIngested ==
    /\ \A k \in 1..Len(messages) :
          messages[k].direction = "avito" => messages[k].sid \notin remote
    /\ \A p \in Procs :
          (proc[p].op = "msg" /\ proc[p].sid \in remote)
              => proc[p].pc \notin {"persist", "evaluate"}

\* C12: when the worker is through with a job, the job's Message is
\* delivered and the prefix of the Dialog's topic is the job's
\* status_on_success if Avito accepted the message, and the Message is failed
\* and the prefix is incoming if the send failed.
C12_JobOutcomeRecorded ==
    [][(wk.pc \in {"finalize", "failure"} /\ wk'.pc \in {"idle", "crashed"}) =>
          LET job == wk.job
              topic == dialogs[job.d].topic IN
          IF wk.sendOk
          THEN /\ messages'[job.mid].status = "delivered"
               /\ topic \in topics => prefix'[topic] = job.status_on_success
          ELSE /\ messages'[job.mid].status = "failed"
               /\ topic \in topics => prefix'[topic] = "incoming"]_vars

\* C13: the status of a Message moves only from pending to sent, from
\* pending or sent to delivered, or to failed, and a Message that is
\* delivered or failed keeps its status, also when its jobs (the text and the
\* photos of one operator's message) end differently.
C13_StatusLifecycle ==
    [][\A k \in 1..Len(messages) :
          LET old == messages[k].status
              new == messages'[k].status IN
          \/ new = old
          \/ old = "pending" /\ new \in {"sent", "delivered", "failed"}
          \/ old = "sent" /\ new \in {"delivered", "failed"}]_vars

\* C14: for a direction and a source_message_id that is not null there is at
\* most one Message, whether it was created by an ingest, by an operator's
\* message from the webhook (also when Telegram delivers the update again),
\* by a portal send or by an auto-reply.
C14_OneMessagePerDirectionAndId ==
    \A j, k \in 1..Len(messages) :
       (messages[j].direction = messages[k].direction
        /\ messages[j].sid = messages[k].sid
        /\ messages[j].sid # NoSid) => j = k

----------------------------------------------------------------------------
\* Ingests of events of every shape into an empty store: with and without a
\* text, filtered or not, with attachments, sequentially and interleaved.

InInit ==
    /\ dialogs = <<>>
    /\ messages = <<>>
    /\ topics = {}
    /\ nextTopic = 1
    /\ sent = EmptyBag
    /\ queue = <<>>
    /\ now = 0
    /\ timers = <<>>
    /\ policy = PolicyOff
    /\ proc = [p \in Procs |-> IdleProc]
    /\ calls = InCalls
    /\ faults = InFaults
    /\ prefix = <<>>
    /\ echo = {}
    /\ remote = {}
    /\ wk = IdleWorker

InNext ==
    \E p \in Procs :
        \/ IngestEvent(p)
        \/ EnsureLookup(p)
        \/ EnsureNewDialog(p)
        \/ EnsureLazyTopic(p)
        \/ EnsureHeader(p)
        \/ Attach(p)
        \/ Exec(p)
        \/ Persist(p)
        \/ Evaluate(p)

SpecIn == InInit /\ [][InNext]_vars

\* A step in which task p enters handle_avito_message.
Enters(p) ==
    /\ proc[p].pc \in {"idle", "done", "failed"}
    /\ proc'[p] # proc[p]
    /\ proc'[p].op = "msg"

\* A Message of direction avito with the remote id sid is stored.
Stored(sid) ==
    \E k \in 1..Len(messages) : messages[k].direction = "avito" /\ messages[k].sid = sid

\* C15: an event that is not filtered and not empty, and whose remote id has
\* a Message of direction avito in the table when it is delivered, returns
\* ignored(duplicate) at once: no row of dialogs or messages, no topic, no
\* prefix, no Telegram send, no job and no timer is added or changed.
C15_DuplicateHasNoEffect ==
    [][\A p \in Procs :
          (/\ Enters(p)
           /\ ~(proc'[p].text /\ proc'[p].match)
           /\ (proc'[p].text \/ proc'[p].input # <<>>)
           /\ proc'[p].sid # NoSid
           /\ Stored(proc'[p].sid))
          => /\ proc'[p].pc = "done"
             /\ proc'[p].res = "duplicate"
             /\ UNCHANGED <<dialogs, messages, topics, nextTopic, sent, queue, timers,
                            prefix, echo>>]_vars

\* A duplicate was delivered after its first delivery had been ingested with
\* its Dialog, its topic and its forward.
C15_Witness ==
    \E p \in Procs :
       /\ proc[p].pc = "done" /\ proc[p].res = "duplicate"
       /\ Len(messages) = 1 /\ Len(dialogs) = 1
       /\ BagCardinality(sent) > 0

\* C16: the rules of the entry are applied in the order filtered, empty,
\* duplicate: an event whose text the filter matches returns
\* ignored(filtered), also when its id has a Message already; an event with
\* neither text nor attachments returns ignored(empty); both return at once,
\* and no row of dialogs or messages, no topic, no prefix, no Telegram send, no
\* job and no timer is added or changed.
C16_FilteredAndEmptyFirst ==
    [][\A p \in Procs :
          Enters(p) =>
             /\ (proc'[p].text /\ proc'[p].match) => proc'[p].res = "filtered"
             /\ (~proc'[p].text /\ proc'[p].input = <<>>) => proc'[p].res = "empty"
             /\ proc'[p].res \in {"filtered", "empty"} =>
                   /\ proc'[p].pc = "done"
                   /\ UNCHANGED <<dialogs, messages, topics, nextTopic, sent, queue, timers,
                                  prefix, echo>>]_vars

\* An event that the filter matches was delivered under an id that has a
\* Message already.
C16_Witness ==
    \E p \in Procs :
       /\ proc[p].pc = "done" /\ proc[p].res = "filtered"
       /\ Stored(proc[p].sid)

\* Task p, inside handle_avito_message, takes a step.
Steps(p) ==
    /\ proc[p].op = "msg"
    /\ proc[p].pc \notin {"idle", "done", "failed"}
    /\ proc'[p] # proc[p]

\* C17: a call of handle_avito_message writes its one Message row in one
\* step, when every attachment has had its turn and every forward has
\* returned, and sends nothing after it; it returns a result that is not
\* ignored only after that step; a call that raises has written no row, and an
\* event is answered as a duplicate only when a row with its id is stored.
C17_OneRowAfterForwards ==
    [][\A p \in Procs :
          /\ (Steps(p) /\ proc[p].pc # "persist") => messages' = messages
          /\ (Steps(p) /\ proc[p].pc = "persist") =>
                /\ proc[p].atts = <<>>
                /\ Len(proc[p].ledger) = Len(proc[p].input)
                /\ Len(messages') = Len(messages) + 1
                /\ messages'[Len(messages')].direction = "avito"
                /\ messages'[Len(messages')].sid = SourceKey(proc[p])
                /\ SubSeq(messages', 1, Len(messages)) = messages
                /\ proc'[p].pc = "evaluate"
          /\ (Steps(p) /\ proc[p].pc \in {"persist", "evaluate"}) => sent' = sent
          /\ (Steps(p) /\ proc'[p].pc = "done") =>
                proc[p].pc = "evaluate" /\ proc'[p].res = "ok"
          /\ (Steps(p) /\ proc'[p].pc = "failed") =>
                proc[p].pc \notin {"persist", "evaluate"}
          /\ (Enters(p) /\ proc'[p].res = "duplicate") => Stored(proc'[p].sid)]_vars

\* An event with two attachments was ingested after a first call for it had
\* raised part-way through its attachments: one Message row, with the
\* event's id.
C17_Witness ==
    \E p, q \in Procs :
       /\ p # q
       /\ proc[p].pc = "failed" /\ proc[p].sid = "m1" /\ proc[p].ledger # <<>>
       /\ proc[q].pc = "done" /\ proc[q].res = "ok" /\ proc[q].sid = "m1"
       /\ Len(proc[q].input) = 2
       /\ Cardinality(get_by_source("avito", "m1")) = 1

\* The ledger entry the specification gives to an attachment of kind a:
\* delivered, or not delivered with one of the three reasons.
WellFormed(e, a) ==
    /\ e.type = AttType(a)
    /\ \/ e.delivered /\ e.reason = "none"
       \/ ~e.delivered /\ e.reason \in {"no_url", "missing_voice_id", "unsupported"}

\* C18: the Message of an ingested event with n attachments stores n ledger
\* entries, in the order of the attachments, each delivered or not delivered
\* with a reason; and no turn of the attachment loop that sends nothing (an
\* attachment without URL or id, of another type, or whose file cannot be
\* resolved) ends the ingest.
C18_LedgerComplete ==
    [][\A p \in Procs :
          /\ (Steps(p) /\ proc[p].pc = "persist") =>
                LET ledger == messages'[Len(messages')].attachments IN
                /\ Len(ledger) = Len(proc[p].input)
                /\ \A i \in 1..Len(ledger) : WellFormed(ledger[i], proc[p].input[i])
          /\ (Steps(p) /\ proc[p].pc = "attach") => proc'[p].pc # "failed"]_vars

\* The header of topic t has been posted: by a send of the behaviour, or
\* before it for the topic the Dialog is bound to at the start.
Introduced(t) ==
    \/ t = 1
    \/ \E row \in BagToSet(sent) : row.kind = "header" /\ row.thread = t

\* C19: a Dialog whose topic_intro_sent is true and whose telegram_topic_id
\* is not null is bound to a topic in which the header has been posted,
\* also while an ingest and a recovery of the same Dialog interleave.
C19_IntroMeansHeaderSent ==
    \A d \in 1..Len(dialogs) :
       (dialogs[d].intro /\ dialogs[d].topic # NoTopic) => Introduced(dialogs[d].topic)

----------------------------------------------------------------------------
\* _maybe_send_auto_reply under every policy: enabled or not, with and
\* without a text, always-on or with a window of any start and end, at every
\* time of the day.

AllPolicies ==
    [enabled : BOOLEAN, text : BOOLEAN, always : BOOLEAN,
     start : 0..(DaySlots - 1), end : 0..(DaySlots - 1)]

WinInit ==
    /\ dialogs = <<[NewDialogRow("c1", 1) EXCEPT !.intro = TRUE]>>
    /\ messages = <<>>
    /\ topics = {1}
    /\ nextTopic = 2
    /\ sent = EmptyBag
    /\ queue = <<>>
    /\ now = 0
    /\ timers = <<>>
    /\ policy \in AllPolicies
    /\ proc = [p \in Procs |-> IdleProc]
    /\ calls = WinCalls
    /\ faults = 0
    /\ prefix = <<"incoming">>
    /\ echo = {}
    /\ remote = {}
    /\ wk = IdleWorker

WinNext ==
    \/ Tick
    \/ \E p \in Procs :
        \/ IngestBegin(p)
        \/ EnsureLookup(p)
        \/ EnsureHeader(p)
        \/ Exec(p)
        \/ OrderSend(p)
        \/ Persist(p)
        \/ Evaluate(p)

SpecWin == WinInit /\ [][WinNext]_vars

\* The time of day c lies in the interval that begins at s and ends before
\* e, going round midnight when e is before s; no time lies in it when s = e.
InSpan(c, s, e) ==
    \E k \in 0..(DaySlots - 1) :
       k < (e - s + DaySlots) % DaySlots /\ c = (s + k) % DaySlots

\* The policy makes evaluate a no-op at time t: it is disabled, or has no
\* text, or is not always-on and t is outside its window.
Idle(t) ==
    \/ ~policy.enabled
    \/ ~policy.text
    \/ ~policy.always /\ ~InSpan(TimeOfDay(t), policy.start, policy.end)

\* C20: evaluate (_maybe_send_auto_reply) arms no timer and leaves
\* auto_reply_scheduled_at as it is when the policy is disabled, when its text
\* is empty, or when it is not always-on and the time of day is outside
\* [start, end), an interval that may go round midnight and is empty when
\* start equals end.
C20_EvaluateNoOp ==
    [][\A p \in Procs :
          (proc[p].pc = "evaluate" /\ proc'[p] # proc[p] /\ Idle(now)) =>
             /\ timers' = timers
             /\ dialogs' = dialogs
             /\ proc'[p].pc = "done"]_vars

\* evaluate has run outside a window that goes round midnight, of an enabled
\* policy with a text, and nothing is armed.
C20_Witness ==
    \E p \in Procs :
       /\ proc[p].pc = "done" /\ proc[p].res = "ok"
       /\ policy.enabled /\ policy.text /\ ~policy.always
       /\ policy.start > policy.end
       /\ \A t \in 0..now : ~InSpan(TimeOfDay(t), policy.start, policy.end)
       /\ now > 0
       /\ timers = <<>>
       /\ dialogs[1].sched = NoTime

\* window_start_local of the policy at time t.
WindowStart(t) ==
    _calculate_window_start(t, policy.always, policy.start, policy.end)

\* C21: for an always-on policy _calculate_window_start is the midnight of
\* the day of now; for a window, going round midnight or not, and a time now
\* inside it, it is the latest occurrence of the window's start at or before
\* now: a time of day equal to start, not after now and less than a day
\* before it.
C21_WindowStartIsLatestStart ==
    IF policy.always
    THEN WindowStart(now) = Midnight(now)
    ELSE InSpan(TimeOfDay(now), policy.start, policy.end) =>
            /\ (WindowStart(now) + DaySlots) % DaySlots = policy.start
            /\ WindowStart(now) <= now
            /\ now - WindowStart(now) < DaySlots

\* evaluate has armed a timer in a window that goes round midnight, at a
\* time before the start of the day's window: the window began the day
\* before.
C21_Witness ==
    /\ ~policy.always /\ policy.start > policy.end
    /\ TimeOfDay(now) < policy.end
    /\ now >= DaySlots
    /\ WindowStart(now) = Midnight(now) - DaySlots + policy.start
    /\ \E k \in 1..Len(timers) : timers[k].at = now

\* C22: when the Dialog's auto_reply_last_sent_at is at or after the start
\* of the current window, a step of evaluate arms no timer and leaves
\* auto_reply_scheduled_at as it is.
C22_AnsweredWindowStaysQuiet ==
    [][\A p \in Procs :
          (/\ proc[p].pc = "evaluate" /\ proc'[p] # proc[p]
           /\ dialogs[proc[p].d].lastSent # NoTime
           /\ dialogs[proc[p].d].lastSent >= WindowStart(now))
          => /\ timers' = timers
             /\ dialogs'[proc[p].d].sched = dialogs[proc[p].d].sched]_vars

\* The firing of task p takes a step from the position pc, and no operator
\* Message was stored since its schedule.
FiringAt(p, pc) ==
    /\ proc[p].op = "fire" /\ proc[p].pc = pc /\ proc'[p] # proc[p]
    /\ ~has_outgoing_since(proc[p].d, proc[p].schedAt)

AutoMessages(d) ==
    {i \in 1..Len(messages) : messages[i].dialog = d /\ messages[i].auto}

----------------------------------------------------------------------------
\* routes/clients.py: the client's auto-reply settings change while a
\* schedule is armed

FireCalls == 2

\* _prepare_client_update_payload, lines 168-181: an enabled policy needs a
\* text and, unless always-on, a window whose bounds differ.
ValidSettings(new) ==
    new.enabled => (new.text /\ (new.always \/ new.start # new.end))

\* The settings an update asks for: each policy of Policies, enabled or
\* switched off.
SettingsUpdates ==
    {s \in AllPolicies :
        /\ ValidSettings(s)
        /\ \E q \in Policies : s = [q EXCEPT !.enabled = s.enabled]}

\* DialogRepository.reset_auto_reply_marks_for_client: one UPDATE over the
\* client's Dialogs.
reset_auto_reply_marks_for_client ==
    [d \in 1..Len(dialogs) |->
        [dialogs[d] EXCEPT !.lastSent = NoTime, !.sched = NoTime]]

\* update_client / update_my_client, lines 42-44: the payload is validated
\* and the client row committed.
update_client(p) ==
    /\ proc[p].pc \in {"idle", "done", "failed"}
    /\ calls > 0
    /\ \E new \in SettingsUpdates :
          /\ new # policy
          /\ policy' = new
          /\ Set(p, With(IdleProc,
                [op |-> "settings",
                 pc |-> IF new.enabled /\ ~policy.enabled THEN "reset_marks" ELSE "done",
                 res |-> "ok"]))
    /\ calls' = calls - 1
    /\ UNCHANGED <<dialogs, messages, topics, nextTopic, sent, queue, now, timers, faults, prefix, outv>>

\* Lines 45-47: switching the auto-reply on resets the marks.
ResetMarks(p) ==
    /\ proc[p].pc = "reset_marks"
    /\ dialogs' = reset_auto_reply_marks_for_client
    /\ Set(p, With(proc[p], [pc |-> "done"]))
    /\ UNCHANGED <<messages, topics, nextTopic, sent, queue, now, timers, policy, calls, faults, prefix, outv>>

\* The store at the start: the auto-reply is on and the Dialog was never
\* answered, or the auto-reply was switched off, before or after an
\* auto-reply to the Dialog.
FireInit ==
    /\ policy \in SettingsUpdates
    /\ \E last \in {NoTime, 0} :
          /\ policy.enabled => last = NoTime
          /\ dialogs = <<[NewDialogRow("c1", 1) EXCEPT !.intro = TRUE, !.lastSent = last]>>
    /\ messages = <<>>
    /\ topics = {1}
    /\ nextTopic = 2
    /\ sent = EmptyBag
    /\ queue = <<>>
    /\ now = 0
    /\ timers = <<>>
    /\ proc = [p \in Procs |-> IdleProc]
    /\ calls = FireCalls
    /\ faults = 0
    /\ prefix = <<"incoming">>
    /\ echo = {}
    /\ remote = {}
    /\ wk = IdleWorker

FireNext ==
    \/ Tick
    \/ \E p \in Procs :
        \/ IngestBegin(p)
        \/ EnsureLookup(p)
        \/ EnsureHeader(p)
        \/ Exec(p)
        \/ OrderSend(p)
        \/ Persist(p)
        \/ Evaluate(p)
        \/ FireBegin(p)
        \/ FireCheck(p)
        \/ FirePersist(p)
        \/ FireMark(p)
        \/ update_client(p)
        \/ ResetMarks(p)

SpecFire == FireInit /\ [][FireNext]_vars

\* The policy, the clock or the Dialog's last auto-reply rule the firing
\* out at the moment of its checks.
Ineligible(d) ==
    \/ ~policy.enabled
    \/ ~policy.text
    \/ ~InWindow(now)
    \/ AnsweredInWindow(dialogs[d].lastSent, now)

\* C24: a firing that reaches its checks when the policy is disabled, the
\* text is empty, the local time is outside the window or an auto-reply was
\* already sent in the current window sends nothing, stores no Message,
\* queues no job and leaves auto_reply_scheduled_at null.
C24_FireRevalidates ==
    [][\A p \in Procs :
          (/\ proc[p].pc = "fire_check" /\ proc'[p] # proc[p]
           /\ Ineligible(proc[p].d))
          => /\ proc'[p].pc = "done"
             /\ dialogs'[proc[p].d].sched = NoTime
             /\ messages' = messages /\ sent' = sent /\ queue' = queue]_vars

----------------------------------------------------------------------------
\* Events of accounts whose bindings are incomplete, next to events of a
\* bound account, into an empty store.

ConfCalls == 3

ConfFaults == 1

\* handle_avito_message / handle_avito_order_event called for an account in
\* the configuration config.
IngestUnder(p) ==
    /\ proc[p].pc \in {"idle", "done", "failed"}
    /\ calls > 0
    /\ \E op \in {"msg", "order"}, conv \in Convs, sid \in Sids \cup {NoSid},
          config \in Configs :
          /\ op = "order" => sid # NoSid
          /\ Set(p, With(IF op = "msg"
                         THEN handle_avito_message(conv, sid, TRUE, FALSE, <<>>)
                         ELSE handle_avito_order_event(conv, sid),
                         [config |-> config]))
    /\ calls' = calls - 1
    /\ UNCHANGED <<dialogs, messages, topics, nextTopic, sent, queue, now, timers, policy, faults, prefix, outv>>

ConfInit ==
    /\ dialogs = <<>>
    /\ messages = <<>>
    /\ topics = {}
    /\ nextTopic = 1
    /\ sent = EmptyBag
    /\ queue = <<>>
    /\ now = 0
    /\ timers = <<>>
    /\ policy = PolicyOff
    /\ proc = [p \in Procs |-> IdleProc]
    /\ calls = ConfCalls
    /\ faults = ConfFaults
    /\ prefix = <<>>
    /\ echo = {}
    /\ remote = {}
    /\ wk = IdleWorker

ConfNext ==
    \E p \in Procs :
        \/ IngestUnder(p)
        \/ EnsureLookup(p)
        \/ EnsureNewDialog(p)
        \/ EnsureLazyTopic(p)
        \/ EnsureHeader(p)
        \/ Exec(p)
        \/ OrderSend(p)
        \/ Persist(p)
        \/ Evaluate(p)

SpecConf == ConfInit /\ [][ConfNext]_vars

\* The call of task p is for an account that is unknown, another client's,
\* without a bot, or whose target chat is configured nowhere.
Misconfigured(p) ==
    \/ proc[p].config \in {"no_account", "foreign_account", "no_bot_link", "no_bot"}
    \/ proc[p].config = "no_chat" /\ get_by_avito(proc[p].conv) = {}

ConfigErrors ==
    {"Avito account not found", "Avito account not linked to bot", "Bot not found",
     "Bot has no target chat configured"}

\* C25: an ingest for a misconfigured account that reaches the resolution
\* of its context ends there with the configuration error, and the step
\* creates no Dialog, no Message, no topic, sends nothing and queues
\* nothing.
C25_ConfigErrorBeforeAnyChange ==
    [][\A p \in Procs :
          (/\ proc[p].pc \notin {"idle", "done", "failed"}
           /\ proc'[p] # proc[p]
           /\ Misconfigured(p))
          => /\ proc'[p].pc = "failed"
             /\ proc'[p].res \in ConfigErrors
             /\ UNCHANGED <<dialogs, messages, topics, nextTopic, sent, queue,
                            timers, prefix>>]_vars

C25_Witness ==
    \E p, q \in Procs :
        /\ proc[p].pc = "failed" /\ proc[p].res = "Avito account not linked to bot"
        /\ proc[q].pc = "done" /\ proc[q].config = "ok" /\ proc[q].created
        /\ Len(dialogs) = 1 /\ Len(messages) = 1 /\ calls = ConfCalls - 2

----------------------------------------------------------------------------
\* routes/webhooks.py: the answer of POST /avito to a request whose call of
\* handle_avito_message ended as rec did

\* Lines 271-283: the handler's result is returned with status ok; a
\* ValueError becomes HTTPException(404); every other exception leaves the
\* route and the framework answers 500.
avito_webhook(rec) ==
    IF rec.pc = "done" THEN [code |-> 200, status |-> "ok"]
    ELSE IF rec.res \in ConfigErrors THEN [code |-> 404, status |-> "rejected"]
    ELSE [code |-> 500, status |-> "error"]

\* C26: a well-formed request to the legacy webhook (client, account, chat
\* and text present) is answered with an acknowledgment whatever became of
\* the event: ignored, stopped by a missing binding, or failed in a send.
C26_WebhookAlwaysAcknowledges ==
    \A p \in Procs :
        (proc[p].op = "msg" /\ proc[p].pc \in {"done", "failed"})
            => avito_webhook(proc[p]).code = 200

----------------------------------------------------------------------------
\* Clients and operators write in the same Dialog while the worker delivers
\* the operators' messages; no call fails.

MixCalls == 2

MixInit ==
    /\ dialogs = <<[NewDialogRow("c1", 1) EXCEPT !.intro = TRUE]>>
    /\ messages = <<>>
    /\ topics = {1}
    /\ nextTopic = 2
    /\ sent = EmptyBag
    /\ queue = <<>>
    /\ now = 0
    /\ timers = <<>>
    /\ policy = PolicyOff
    /\ proc = [p \in Procs |-> IdleProc]
    /\ calls = MixCalls
    /\ faults = 0
    /\ prefix = <<"incoming">>
    /\ echo = {}
    /\ remote = {}
    /\ wk = IdleWorker

MixNext ==
    \/ WorkerTake
    \/ WorkerSend
    \/ WorkerRemember
    \/ WorkerFinalize
    \/ \E p \in Procs :
        \/ IngestBegin(p)
        \/ TelegramRecord(p)
        \/ TelegramClear(p)
        \/ EnsureLookup(p)
        \/ EnsureHeader(p)
        \/ Exec(p)
        \/ OrderSend(p)
        \/ Persist(p)
        \/ Evaluate(p)

SpecMix == MixInit /\ [][MixNext]_vars

\* No ingest, no operator's webhook and no outbound job is in flight.
Quiescent ==
    /\ \A p \in Procs : proc[p].pc \in {"idle", "done", "failed"}
    /\ wk.pc = "idle"
    /\ queue = <<>>

MessagesOf(d) == {k \in 1..Len(messages) : messages[k].dialog = d}

\* The direction of a Message as the prefix names it.
DirectionOf(m) ==
    IF m.direction = "avito" THEN "incoming"
    ELSE IF m.auto THEN "auto"
    ELSE "outgoing"

\* C27: when nothing is in flight, the prefix of a Dialog's topic names the
\* direction of the Dialog's most recent Message.
C27_PrefixIsLatestDirection ==
    Quiescent =>
        \A d \in 1..Len(dialogs) :
            (MessagesOf(d) # {} /\ dialogs[d].topic \in topics)
                => LET last == CHOOSE k \in MessagesOf(d) :
                                  \A j \in MessagesOf(d) : j <= k IN
                   prefix[dialogs[d].topic] = DirectionOf(messages[last])

\* C28: when the worker has finished with a job it took from the queue, the
\* job's Message is delivered if Avito accepted the send and failed
\* otherwise.
C28_JobEndsTerminal ==
    [][(wk.pc # "idle" /\ wk'.pc = "idle")
          => messages'[wk.job.mid].status =
                (IF wk.sendOk THEN "delivered" ELSE "failed")]_vars

----------------------------------------------------------------------------
\* The worker next to ingests that create the Dialog: events of a new chat
\* arrive together, an operator answers in the topic, the worker delivers;
\* no call to Telegram, Avito or Redis fails.

DupCalls == 3

DupInit ==
    /\ dialogs = <<>>
    /\ messages = <<>>
    /\ topics = {}
    /\ nextTopic = 1
    /\ sent = EmptyBag
    /\ queue = <<>>
    /\ now = 0
    /\ timers = <<>>
    /\ policy = PolicyOff
    /\ proc = [p \in Procs |-> IdleProc]
    /\ calls = DupCalls
    /\ faults = 0
    /\ prefix = <<>>
    /\ echo = {}
    /\ remote = {}
    /\ wk = IdleWorker

DupNext ==
    \/ WorkerTake
    \/ WorkerSend
    \/ WorkerRemember
    \/ WorkerFinalize
    \/ WorkerFailure
    \/ \E p \in Procs :
        \/ IngestBegin(p)
        \/ TelegramRecord(p)
        \/ TelegramClear(p)
        \/ EnsureLookup(p)
        \/ EnsureNewDialog(p)
        \/ EnsureHeader(p)
        \/ Exec(p)
        \/ OrderSend(p)
        \/ Persist(p)
        \/ Evaluate(p)

SpecDup == DupInit /\ [][DupNext]_vars

\* C29: no job makes the worker leave its loop: whatever fails while a job
\* is handled, the worker goes back to the queue.
C29_WorkerNeverStops == wk.pc # "crashed"

----------------------------------------------------------------------------
\* The pollers: samples/poller.py and workers/avito_poller.py fetch the
\* unread messages of a chat, hand them to handle_avito_message and mark
\* the chat read

PollCalls == 2

PollFaults == 1

\* What a poll of the chat fetched: the one-shot poller takes the chat's
\* last message, without its id; the worker takes the unread messages with
\* their ids.
Fetched(mode) ==
    IF mode = "sample" THEN {<<NoSid>>} ELSE {<<"m1">>, <<"m1", "m2">>}

\* The call of handle_avito_message for the first of the messages msgs,
\* inside the poll cycle cycle.
HandleNext(conv, msgs, cycle) ==
    With(handle_avito_message(conv, Head(msgs), TRUE, FALSE, <<>>),
         [poll |-> cycle.poll, chat |-> Tail(msgs), errs |-> cycle.errs])

\* process_chat is entered for a chat with unread messages.
PollBegin(p) ==
    /\ proc[p].pc \in {"idle", "done", "failed"}
    /\ proc[p].poll \notin {"sample", "worker"}
    /\ calls > 0
    /\ \E mode \in {"sample", "worker"}, conv \in Convs :
       \E msgs \in Fetched(mode) :
          Set(p, HandleNext(conv, msgs, [poll |-> mode, errs |-> 0]))
    /\ calls' = calls - 1
    /\ UNCHANGED <<dialogs, messages, topics, nextTopic, sent, queue, now, timers, policy, faults, prefix, outv>>

\* handle_avito_message has returned or raised.  samples/poller.py, lines
\* 115-130: an exception leaves process_chat before mark_chat_read.
\* workers/avito_poller.py, lines 365-388: the exception is logged inside
\* the loop, the next message is handled, and after the loop the chat is
\* marked read.
PollStep(p) ==
    /\ proc[p].poll \in {"sample", "worker"}
    /\ proc[p].pc \in {"done", "failed"}
    /\ LET rec == proc[p]
           errs == rec.errs + (IF rec.pc = "failed" THEN 1 ELSE 0) IN
       IF rec.poll = "sample" /\ rec.pc = "failed"
       THEN Set(p, With(rec, [poll |-> "ended", errs |-> errs, read |-> FALSE]))
       ELSE IF rec.chat # <<>>
       THEN Set(p, HandleNext(rec.conv, rec.chat, [poll |-> rec.poll, errs |-> errs]))
       ELSE Set(p, With(rec, [poll |-> "ended", errs |-> errs, read |-> TRUE]))
    /\ UNCHANGED <<dialogs, messages, topics, nextTopic, sent, queue, now, timers, policy, calls, faults, prefix, outv>>

PollInit ==
    /\ dialogs = <<>>
    /\ messages = <<>>
    /\ topics = {}
    /\ nextTopic = 1
    /\ sent = EmptyBag
    /\ queue = <<>>
    /\ now = 0
    /\ timers = <<>>
    /\ policy = PolicyOff
    /\ proc = [p \in Procs |-> IdleProc]
    /\ calls = PollCalls
    /\ faults = PollFaults
    /\ prefix = <<>>
    /\ echo = {}
    /\ remote = {}
    /\ wk = IdleWorker

PollNext ==
    \E p \in Procs :
        \/ PollBegin(p)
        \/ PollStep(p)
        \/ EnsureLookup(p)
        \/ EnsureNewDialog(p)
        \/ EnsureLazyTopic(p)
        \/ EnsureHeader(p)
        \/ Exec(p)
        \/ Persist(p)
        \/ Evaluate(p)

SpecPoll == PollInit /\ [][PollNext]_vars

\* C30: a poll cycle in which the ingestion of a fetched message failed
\* ends without the chat being marked read.
C30_ReadOnlyAfterSuccess ==
    \A p \in Procs :
        (proc[p].poll = "ended" /\ proc[p].errs > 0) => ~proc[p].read

----------------------------------------------------------------------------
\* Properties of the first and the later events of a conversation (Spec).

RowsOf(conv) == {i \in 1..Len(dialogs) : dialogs[i].conv = conv}

HeaderRows == {r \in BagToSet(sent) : r.kind = "header"}

\* Exactly one event has been handed in so far, it has been handled to the
\* end, and no call has failed.
FirstEventDone(p) ==
    /\ calls = MaxCalls - 1 /\ faults = MaxFaults
    /\ proc[p].pc = "done" /\ proc[p].res = "ok"

OneHeaderPerTopic ==
    \A r \in HeaderRows :
        /\ CopiesIn(r, sent) = 1
        /\ \A q \in HeaderRows : q.thread = r.thread => q = r

\* C32: a header send that fails does not end the ingest and leaves
\* topic_intro_sent as it is; a handler whose copy has topic_intro_sent =
\* false and a topic makes one attempt (a failed one costs a fault, a
\* successful one stores the flag); and no topic ever holds a second header.
C32_HeaderRetriedUntilPosted ==
    [][\A p \in Procs :
          (proc[p].pc = "header" /\ proc'[p] # proc[p])
          => /\ proc'[p].pc # "failed"
             /\ (sent' = sent)
                   => dialogs'[proc[p].d].intro = dialogs[proc[p].d].intro
             /\ (sent' # sent) => dialogs'[proc[p].d].intro
             /\ (~proc[p].mem.intro /\ proc[p].tid \in topics)
                   => (sent' # sent \/ faults' < faults)
             /\ OneHeaderPerTopic']_vars

----------------------------------------------------------------------------
\* The auto-reply under a running event loop: every task that can take a
\* step takes it in the end, the sleep of a runner() ends, and no call fails.

LiveCalls == 1

\* No handle_avito_message or handle_avito_order_event is left to come or
\* in flight.
InputsOver ==
    /\ calls = 0
    /\ \A p \in Procs :
          proc[p].op \in {"msg", "order"} => proc[p].pc \in {"done", "failed"}

\* The clock; its last slot is entered when the inbound events are through,
\* so that the delay of every schedule can run out before the clock's bound.
LiveTick ==
    /\ now < MaxNow - 1 \/ InputsOver
    /\ Tick

LiveInit ==
    /\ dialogs = <<[NewDialogRow("c1", 1) EXCEPT !.intro = TRUE]>>
    /\ messages = <<>>
    /\ topics = {1}
    /\ nextTopic = 2
    /\ sent = EmptyBag
    /\ queue = <<>>
    /\ now = 0
    /\ timers = <<>>
    /\ policy \in Policies
    /\ proc = [p \in Procs |-> IdleProc]
    /\ calls = LiveCalls
    /\ faults = 0
    /\ prefix = <<"incoming">>
    /\ echo = {}
    /\ remote = {}
    /\ wk = IdleWorker

\* The steps of the tasks the event loop runs.
LiveStep(p) ==
    \/ EnsureLookup(p)
    \/ EnsureHeader(p)
    \/ Exec(p)
    \/ OrderSend(p)
    \/ Persist(p)
    \/ Evaluate(p)
    \/ FireCheck(p)
    \/ FirePersist(p)
    \/ FireMark(p)

LiveFire == \E p \in Procs : FireBegin(p)

LiveNext ==
    \/ LiveTick
    \/ LiveFire
    \/ \E p \in Procs : IngestBegin(p) \/ LiveStep(p)

SpecLive ==
    /\ LiveInit /\ [][LiveNext]_vars
    /\ WF_vars(LiveTick)
    /\ WF_vars(LiveFire)
    /\ \A p \in Procs : WF_vars(LiveStep(p))

\* C33: once the inbound events are over and a schedule is stored, an
\* auto-reply of the current window is recorded and the schedule is null in
\* the end, unless the local time leaves the window.
C33_ArmedReplyIsSent ==
    (InputsOver /\ dialogs[1].sched # NoTime)
        ~> \/ /\ AnsweredInWindow(dialogs[1].lastSent, now)
              /\ dialogs[1].sched = NoTime
              /\ AutoRows(1) # {}
           \/ ~InWindow(now)

C33_Witness ==
    /\ InputsOver
    /\ AnsweredInWindow(dialogs[1].lastSent, now)
    /\ dialogs[1].sched = NoTime
    /\ Cardinality(AutoRows(1)) = 1
    /\ Len(messages) = 2
    /\ \E p \in Procs : proc[p].op = "fire" /\ proc[p].res = "sent"

----------------------------------------------------------------------------
\* The topic whose title the handler of p is about to edit.
StatusTopic(p) ==
    IF proc[p].pc = "portal_persist" THEN dialogs[proc[p].d].topic
    ELSE IF proc[p].op = "order" THEN proc[p].tid
    ELSE proc[p].mem.topic

RenameFailed(p) ==
    \/ faults' < faults
    \/ StatusTopic(p) = NoTopic
    \/ StatusTopic(p) \notin topics

C34_NullTopicPersisted ==
    /\ dialogs[1].topic = NoTopic
    /\ \E p \in Procs : proc[p].pc = "evaluate" /\ proc[p].mem.topic = NoTopic
    /\ Len(messages) >= 1

----------------------------------------------------------------------------
\* C35: a Dialog found without a topic gets one on its next ingest: when
\* create_topic answers with an id the id is stored, the handler holds it
\* and posts the header to it; when create_topic fails or answers without an
\* id nothing stored changes, the handler goes on without a topic, its sends
\* carry no thread and the Message is stored.
C35_LazyTopicBestEffort ==
    [][\A p \in Procs :
        /\ (proc[p].pc = "lazy_topic" /\ proc'[p] # proc[p]) =>
              /\ proc[p].mem.topic = NoTopic /\ ~proc[p].created
              /\ proc'[p].pc = "header"
              /\ IF faults' = faults
                 THEN /\ dialogs'[proc[p].d].topic = nextTopic
                      /\ nextTopic \in topics' /\ nextTopic # NoTopic
                      /\ proc'[p].tid = nextTopic /\ proc'[p].tcreated
                 ELSE /\ dialogs' = dialogs /\ topics' = topics
                      /\ proc'[p].mem.topic = NoTopic /\ ~proc'[p].tcreated
        /\ (proc[p].pc = "header" /\ proc'[p] # proc[p] /\ ~proc[p].created) =>
              /\ proc'[p].pc # "failed"
              /\ (proc[p].tcreated /\ proc[p].tid \in topics)
                    => \/ faults' < faults
                       \/ /\ sent' = Log(SentRow(proc[p].d, "header", "none", proc[p].tid))
                          /\ dialogs'[proc[p].d].intro
              /\ (~proc[p].tcreated /\ proc[p].mem.topic = NoTopic)
                    => sent' = sent /\ dialogs' = dialogs
        /\ (proc[p].pc = "exec" /\ proc[p].mem.topic = NoTopic
               /\ proc[p].phase = "first" /\ proc'[p] # proc[p] /\ sent' # sent) =>
              sent' = Log(SentRow(proc[p].d, SendKind(proc[p].op), "first", NoTopic))
        /\ (proc[p].pc = "persist" /\ proc'[p] # proc[p]) =>
              Len(messages') = Len(messages) + 1]_vars

\* The recovery failed to create a topic, the next ingest failed to create
\* one as well, and its message went to the chat without a thread and was
\* stored.
C35_Witness ==
    /\ dialogs[1].topic = NoTopic
    /\ faults = 0
    /\ \E p \in Procs :
          /\ proc[p].op = "msg" /\ proc[p].pc = "done" /\ proc[p].res = "ok"
          /\ proc[p].mem.topic = NoTopic
    /\ \E r \in BagToSet(sent) : r.thread = NoTopic /\ r.kind # "header"
    /\ Len(messages) = 1

\* The lazy creation succeeded and the header went to the new topic.
C35_LazyCreated ==
    /\ dialogs[1].topic = 2 /\ dialogs[1].intro
    /\ \E r \in BagToSet(sent) : r.kind = "header" /\ r.thread = 2 /\ r.pass = "none"
    /\ \E p \in Procs : proc[p].pc = "done" /\ proc[p].res = "ok" /\ proc[p].tcreated
    /\ Len(messages) = 1

----------------------------------------------------------------------------
\* A tenant with require_reply_for_avito: an operator's message goes to the
\* client only when it quotes a client message.

QuoteCalls == 2

\* Lines 1608-1627: should_enqueue.
should_enqueue(require_reply, quoted) == ~require_reply \/ quoted

\* Lines 1574-1647 for an operator's message: created with status sent when
\* it is to be queued, with status pending when it is not.
handle_telegram_reply(p, id, quoted) ==
    /\ proc[p].pc \in {"idle", "done", "failed"}
    /\ calls > 0
    /\ \E d \in 1..Len(dialogs) :
          /\ dialogs[d].topic # NoTopic /\ dialogs[d].topic \in topics
          /\ messages' = Append(messages,
                NewMessageRow(d, "telegram", id,
                              IF should_enqueue(TRUE, quoted) THEN "sent" ELSE "pending",
                              FALSE, FALSE))
          /\ Set(p, With(IdleProc,
                [pc |-> IF should_enqueue(TRUE, quoted) THEN "tg_clear" ELSE "tg_pending",
                 op |-> "telegram", d |-> d,
                 conv |-> dialogs[d].conv, mem |-> dialogs[d],
                 tid |-> dialogs[d].topic, text |-> TRUE,
                 photo |-> FALSE, tgid |-> Len(messages) + 1]))
    /\ calls' = calls - 1
    /\ UNCHANGED <<dialogs, topics, nextTopic, sent, queue, now, timers, policy, faults, prefix, outv>>

TelegramReply(p) ==
    /\ calls > 0
    /\ \E quoted \in BOOLEAN : handle_telegram_reply(p, "u" \o ToString(calls), quoted)

\* Lines 1647-1724 when should_enqueue is false: the schedule is cleared as
\* for every message that is not an auto-reply, nothing is queued and the
\* title of the topic is left alone.
TelegramSkip(p) ==
    /\ proc[p].pc = "tg_pending"
    /\ LET rec == proc[p]
           row == clear_auto_reply_schedule(rec.d, rec.mem) IN
       /\ dialogs' = [dialogs EXCEPT ![rec.d] = row]
       /\ Set(p, With(rec, [pc |-> "done", res |-> "skipped", mem |-> row]))
    /\ UNCHANGED <<messages, topics, nextTopic, sent, queue, now, timers, policy, calls,
                   faults, prefix, outv>>

QuoteInit ==
    /\ dialogs = <<[NewDialogRow("c1", 1) EXCEPT !.intro = TRUE]>>
    /\ messages = <<>>
    /\ topics = {1}
    /\ nextTopic = 2
    /\ sent = EmptyBag
    /\ queue = <<>>
    /\ now = 0
    /\ timers = <<>>
    /\ policy \in Policies
    /\ proc = [p \in Procs |-> IdleProc]
    /\ calls = QuoteCalls
    /\ faults = 0
    /\ prefix = <<"incoming">>
    /\ echo = {}
    /\ remote = {}
    /\ wk = IdleWorker

QuoteNext ==
    \/ Tick
    \/ \E p \in Procs :
        \/ IngestBegin(p)
        \/ EnsureLookup(p)
        \/ EnsureHeader(p)
        \/ Exec(p)
        \/ OrderSend(p)
        \/ Persist(p)
        \/ Evaluate(p)
        \/ FireBegin(p)
        \/ FireCheck(p)
        \/ FirePersist(p)
        \/ FireMark(p)
        \/ TelegramReply(p)
        \/ TelegramClear(p)
        \/ TelegramSkip(p)

SpecQuote == QuoteInit /\ [][QuoteNext]_vars

\* An operator's message since the time that went to the queue for the
\* client.
EnqueuedSince(d, since) ==
    \E i \in 1..Len(messages) :
        /\ messages[i].dialog = d /\ messages[i].direction = "telegram"
        /\ ~messages[i].auto /\ messages[i].status # "pending"
        /\ messages[i].at >= since

\* C36: only an operator's message that was queued for the client pre-empts
\* the auto-reply: the handler of a message stored as pending leaves
\* auto_reply_scheduled_at as it is, and a firing gives way to the operator
\* only when a queued message was written since the schedule.
C36_PendingDoesNotPreempt ==
    [][\A p \in Procs :
        /\ (proc[p].pc = "tg_pending" /\ proc'[p] # proc[p]) =>
              dialogs'[proc[p].d].sched = dialogs[proc[p].d].sched
        /\ (proc[p].pc = "fire_check" /\ proc'[p] # proc[p]
               /\ proc'[p].res = "preempted") =>
              EnqueuedSince(proc[p].d, proc[p].schedAt)]_vars

\* The parts of C36 taken apart: the handler of a pending message and the
\* check of the firing.
C36_PendingKeepsSchedule ==
    [][\A p \in Procs :
        (proc[p].pc = "tg_pending" /\ proc'[p] # proc[p]) =>
            dialogs'[proc[p].d].sched = dialogs[proc[p].d].sched]_vars

C36_FiringIgnoresPending ==
    [][\A p \in Procs :
        (proc[p].pc = "fire_check" /\ proc'[p] # proc[p] /\ proc'[p].res = "preempted") =>
            EnqueuedSince(proc[p].d, proc[p].schedAt)]_vars

----------------------------------------------------------------------------
\* Two tenants, each with a bot of its own in a group of its own.  Telegram
\* numbers the messages and the topics of every group from 1, so the groups
\* share their ids.

BotCalls == 2

Bots == {"b1", "b2"}

\* Dialog.bot_id, fixed when the Dialog is created.
bot_id(conv) == IF conv = "c2" THEN "b2" ELSE "b1"

\* Message.telegram_message_id next to the other columns, with the thread
\* and the bot of the group the message lies in.
InChat(row, n, thread, bot) == row @@ [tg |-> n, thread |-> thread, by |-> bot]

NoTg == 0
TgIds == {3, 4}
Threads == {1, 2}

\* DialogRepository.get_by_topic
get_by_topic(bot, t) ==
    {i \in 1..Len(dialogs) : bot_id(dialogs[i].conv) = bot /\ dialogs[i].topic = t}

\* MessageRepository.get_by_telegram: of the two newest rows with that
\* telegram_message_id (and direction, when given) the first one of the
\* direction, or without a direction the first client message, else the
\* newest.
get_by_telegram(n, direction) ==
    LET all == {i \in 1..Len(messages) :
                   /\ messages[i].tg = n
                   /\ (direction # "any" => messages[i].direction = direction)}
        Newest(S) == CHOOSE i \in S : \A j \in S : j <= i
        two == IF all = {} THEN {}
               ELSE {Newest(all)} \cup
                    (IF all \ {Newest(all)} = {} THEN {} ELSE {Newest(all \ {Newest(all)})})
        pref == {i \in two : IF direction # "any" THEN TRUE ELSE messages[i].client} IN
    IF all = {} THEN NoDialog
    ELSE IF Cardinality(two) > 1 /\ pref # {} THEN Newest(pref)
    ELSE Newest(all)

\* Lines 1546-1560: the Message the operator replied to, by source id of an
\* inbound Message, then by telegram_message_id of an inbound Message, then
\* by telegram_message_id alone.  0 stands for none.
SourceMessage(reply) ==
    IF reply = NoTg THEN 0
    ELSE LET bySource == get_by_source("avito", ToString(reply)) IN
         IF bySource # {} THEN CHOOSE i \in bySource : \A j \in bySource : j <= i
         ELSE IF get_by_telegram(reply, "avito") # NoDialog THEN get_by_telegram(reply, "avito")
         ELSE get_by_telegram(reply, "any")

\* DialogRepository.get_recent_by_chat: the Dialog of the bot with the
\* latest last_message_at.
get_recent_by_chat(bot) ==
    LET own == {i \in 1..Len(messages) : bot_id(dialogs[messages[i].dialog].conv) = bot} IN
    IF own = {} THEN NoDialog
    ELSE messages[CHOOSE i \in own : \A j \in own : j <= i].dialog

\* The thread a message of the bot's group lies in: the topic of its Dialog
\* for a message the bot has posted, any thread of the group for a message
\* of the group's members.
ThreadsOf(bot, reply) ==
    LET posted == {i \in 1..Len(messages) :
                      messages[i].tg = reply
                      /\ bot_id(dialogs[messages[i].dialog].conv) = bot} IN
    IF reply = NoTg \/ posted = {} THEN Threads \cup {NoTopic}
    ELSE {messages[i].thread : i \in posted}

\* Lines 1525-1573: the update of a bot's webhook; the Dialog is looked up by
\* (bot, thread), then through the Message replied to, then as the latest
\* Dialog of the chat.
BotResolve(p) ==
    /\ proc[p].pc \in {"idle", "done", "failed"}
    /\ calls > 0
    /\ calls' = calls - 1
    /\ \E bot \in Bots, reply \in TgIds \cup {NoTg} :
       \E thread \in ThreadsOf(bot, reply) :
          LET source == SourceMessage(reply)
              byTopic == IF thread # NoTopic THEN get_by_topic(bot, thread) ELSE {}
              d == IF byTopic # {} THEN CHOOSE i \in byTopic : TRUE
                   ELSE IF source # 0 THEN messages[source].dialog
                   ELSE IF thread = NoTopic THEN get_recent_by_chat(bot)
                   ELSE NoDialog
              rec == With(IdleProc, [op |-> "telegram", bot |-> bot, thread |-> thread,
                                     seen |-> reply, text |-> TRUE]) IN
          Set(p, IF Cardinality(byTopic) > 1
                 THEN With(rec, [pc |-> "failed", res |-> "multiple_rows"])
                 ELSE IF d = NoDialog
                 THEN With(rec, [pc |-> "failed", res |-> "not_found"])
                 ELSE With(rec, [pc |-> "tg_bind", d |-> d, conv |-> dialogs[d].conv,
                                 mem |-> dialogs[d],
                                 thread |-> IF thread = NoTopic THEN dialogs[d].topic
                                            ELSE thread]))
    /\ UNCHANGED <<dialogs, messages, topics, nextTopic, sent, queue, now, timers, policy,
                   faults, prefix, outv>>

\* Lines 1574-1595: the Dialog is bound to the thread the operator wrote in
\* when it holds another one or none.
BotBind(p) ==
    /\ proc[p].pc = "tg_bind"
    /\ LET rec == proc[p]
           rebind == rec.thread # NoTopic /\ rec.mem.topic # rec.thread
           row == IF rebind THEN set_topic(rec.d, rec.mem, rec.thread) ELSE dialogs[rec.d] IN
       /\ dialogs' = [dialogs EXCEPT ![rec.d] = row]
       /\ Set(p, With(rec, [pc |-> "tg_create", mem |-> IF rebind THEN row ELSE rec.mem,
                             tid |-> IF rebind THEN rec.thread ELSE rec.mem.topic]))
    /\ UNCHANGED <<messages, topics, nextTopic, sent, queue, now, timers, policy, calls,
                   faults, prefix, outv>>

\* Lines 1632-1641: the operator's Message, with the message_id of the
\* update as its source and Telegram id.
BotRecord(p) ==
    /\ proc[p].pc = "tg_create"
    /\ LET rec == proc[p]
           row == InChat(NewMessageRow(rec.d, "telegram", "u" \o ToString(Len(messages)),
                                       "sent", FALSE, FALSE),
                         5 + Len(messages), rec.tid, rec.bot) IN
       /\ messages' = Append(messages, row)
       /\ Set(p, With(rec, [pc |-> "tg_clear", tgid |-> Len(messages) + 1,
                             mem |-> dialogs[rec.d]]))
    /\ UNCHANGED <<dialogs, topics, nextTopic, sent, queue, now, timers, policy, calls,
                   faults, prefix, outv>>

\* An inbound Message as handle_avito_message stored it: posted by the
\* Dialog's bot to the Dialog's topic under Telegram id n.
InboundRow(d, topic, sid, n, bot) ==
    InChat(NewMessageRow(d, "avito", sid, "delivered", FALSE, TRUE), n, topic, bot)

\* Three Dialogs with one client message each: c1 and c3 of the first
\* tenant in the topics 1 and 2 of its group, c2 of the second tenant in
\* topic 1 of the other group, or in a group without topics.
BotInit ==
    /\ now = 0
    /\ \E t2 \in {NoTopic, 1} :
          /\ dialogs = <<[NewDialogRow("c1", 1) EXCEPT !.intro = TRUE],
                         [NewDialogRow("c2", t2) EXCEPT !.intro = TRUE],
                         [NewDialogRow("c3", 2) EXCEPT !.intro = TRUE]>>
          /\ messages = <<InboundRow(1, 1, "m1", 3, "b1"),
                          InboundRow(2, t2, "m2", 3, "b2"),
                          InboundRow(3, 2, "m3", 4, "b1")>>
    /\ topics = {1, 2}
    /\ nextTopic = 3
    /\ sent = EmptyBag
    /\ queue = <<>>
    /\ timers = <<>>
    /\ policy = PolicyOff
    /\ proc = [p \in Procs |-> IdleProc]
    /\ calls = BotCalls
    /\ faults = 0
    /\ prefix = <<"incoming", "incoming">>
    /\ echo = {}
    /\ remote = {}
    /\ wk = IdleWorker

BotNext ==
    \E p \in Procs :
        \/ BotResolve(p)
        \/ BotBind(p)
        \/ BotRecord(p)
        \/ TelegramClear(p)

SpecBots == BotInit /\ [][BotNext]_vars

\* C37: the handler of an update of bot B works on a Dialog of bot B only:
\* the Dialog it has resolved, which it rebinds, stores the Message on,
\* clears the schedule of and queues the send for, has bot_id B.
C37_ResolvesOwnBotOnly ==
    \A p \in Procs :
        (proc[p].op = "telegram" /\ proc[p].d # NoDialog) =>
            bot_id(dialogs[proc[p].d].conv) = proc[p].bot

\* C38: no two Dialogs of one bot hold the same telegram_topic_id, so
\* get_by_topic finds at most one row.
C38_TopicUniquePerBot ==
    \A i, j \in 1..Len(dialogs) :
        (i # j /\ bot_id(dialogs[i].conv) = bot_id(dialogs[j].conv)
             /\ dialogs[i].topic # NoTopic)
        => dialogs[i].topic # dialogs[j].topic

----------------------------------------------------------------------------
\* C39: the Message of an inbound client event is stored as delivered only
\* when a send of that event to the team chat has succeeded (the handler
\* holds a Telegram message id).
C39_DeliveredOnlyIfSent ==
    [][\A p \in Procs :
        (proc[p].pc = "persist" /\ proc[p].op = "msg" /\ proc'[p] # proc[p]) =>
            (messages'[Len(messages')].status = "delivered" => proc[p].tgid # 0)]_vars

=============================================================================
